---- MODULE Spec2Model ----
(***************************************************************************)
(* Model of the Storwize/SVC management simulator (the array-side object   *)
(* store and its FlashCopy mapping state machine) and of the driver        *)
(* operations that run on top of it.                                       *)
(*                                                                         *)
(* Source: cinder/tests/test_storwize_svc.py,                              *)
(*         class StorwizeSVCManagementSimulator.                           *)
(***************************************************************************)
EXTENDS Integers, Sequences, FiniteSets, TLC

VARIABLES
    volumes_list,      \* self._volumes_list     : name -> volume_info
    hosts_list,        \* self._hosts_list       : name -> host_info
    mappings_list,     \* self._mappings_list    : id   -> mapping_info
    fcmappings_list,   \* self._fcmappings_list  : id   -> fcmap_info
    other_pools,       \* self._other_pools      : pool -> name -> volume_info
    next_cmd_error,    \* self._next_cmd_error   : cmd  -> injected error
    out,               \* stdout of the last command, as a sequence of rows
    err,               \* stderr of the last command: "" or the error code
    exc,               \* exception that escaped the last command, "" if none
    last,              \* the last command or operation and its arguments
    nfs,               \* the NFS driver: its _stats and _mounted_shares
    netapp             \* an object of the NetApp drivers, the lock of
                       \* set_safe_attr and the threads that call it

vars == <<volumes_list, hosts_list, mappings_list, fcmappings_list,
          other_pools, next_cmd_error, out, err, exc, last, nfs, netapp>>

(***************************************************************************)
(* Bounds of the model.                                                    *)
(***************************************************************************)
MaxFcmaps == 1        \* at most this many FlashCopy mappings exist at a time
MaxSize == 1          \* -size arguments range over 1..MaxSize
MaxCapGiB == 2        \* expandvdisksize is tried on volumes below this many GiB
MaxHosts == 2         \* at most this many hosts exist at a time
MaxPorts == 2         \* a host has at most this many ports
MaxMaps == 2          \* at most this many host mappings exist at a time
MaxCopies == 2        \* a volume has at most this many copies

VolNames == {"vol1", "vol2"}
FcIds == 0..(MaxFcmaps - 1)
Sizes == 1..MaxSize

(***************************************************************************)
(* Byte counts.  Python integers are unbounded and capacities reach        *)
(* 1024^5, so a byte count is kept as its sequence of base-1024 digits,    *)
(* least significant first, without leading zero digits (zero is <<>>).    *)
(* The decimal string the simulator stores is canonical for the number,    *)
(* so comparing the strings is comparing the numbers.                      *)
(***************************************************************************)
Base == 1024

BigOfInt(n) == IF n = 0 THEN <<>> ELSE <<n>>

BigMulBase(b) == IF b = <<>> THEN <<>> ELSE <<0>> \o b

RECURSIVE BigAddC(_, _, _)
BigAddC(a, b, carry) ==
    IF a = <<>> /\ b = <<>>
    THEN (IF carry = 0 THEN <<>> ELSE <<carry>>)
    ELSE LET da == IF a = <<>> THEN 0 ELSE Head(a)
             db == IF b = <<>> THEN 0 ELSE Head(b)
             s  == da + db + carry
             ra == IF a = <<>> THEN <<>> ELSE Tail(a)
             rb == IF b = <<>> THEN <<>> ELSE Tail(b)
         IN  <<s % Base>> \o BigAddC(ra, rb, s \div Base)

BigAdd(a, b) == BigAddC(a, b, 0)

\* whether the byte count b is below n GiB
BelowGiB(b, n) == Len(b) < 4 \/ (Len(b) = 4 /\ b[4] < n)

\* size * units.GiB for 0 <= size < 1024 (units.GiB is 1024^3)
TimesGiB(size) == IF size = 0 THEN <<>> ELSE <<0, 0, 0, size>>

(***************************************************************************)
(* self._errors: a command's stderr is represented by the error code that  *)
(* starts the message.                                                     *)
(***************************************************************************)
Errors == {"CMMVC5701E", "CMMVC6035E", "CMMVC5753E", "CMMVC5707E",
           "CMMVC6581E", "CMMVC5754E", "CMMVC6071E", "CMMVC5879E",
           "CMMVC5840E", "CMMVC6527E", "CMMVC5871E", "CMMVC5924E",
           "CMMVC6303E", "CMMVC7050E", "CMMVC6430E", "CMMVC6353E",
           "CMMVC6446E", "CMMVC5903E"}

NoEntry == [e \in {} |-> ""]

\* a table that also lets a stopping mapping be stopped again
transitions_restop ==
    [begin          |-> [make |-> "idle_or_copied"],
     idle_or_copied |-> [prepare |-> "preparing", delete |-> "end",
                         delete_force |-> "end"],
     preparing      |-> [flush_failed |-> "stopped", wait |-> "prepared"],
     end            |-> NoEntry,
     stopped        |-> [prepare |-> "preparing", delete_force |-> "end"],
     prepared       |-> [stop |-> "stopped", start |-> "copying"],
     copying        |-> [wait |-> "idle_or_copied", stop |-> "stopping"],
     stopping       |-> [wait |-> "stopped", stop |-> "stopped"]]

\* a table that also lets an idle mapping be started without preparing
transitions_restart ==
    [begin          |-> [make |-> "idle_or_copied"],
     idle_or_copied |-> [prepare |-> "preparing", delete |-> "end",
                         delete_force |-> "end", start |-> "copying"],
     preparing      |-> [flush_failed |-> "stopped", wait |-> "prepared"],
     end            |-> NoEntry,
     stopped        |-> [prepare |-> "preparing", delete_force |-> "end"],
     prepared       |-> [stop |-> "stopped", start |-> "copying"],
     copying        |-> [wait |-> "idle_or_copied", stop |-> "stopping"],
     stopping       |-> [wait |-> "stopped"]]

\* self._transitions
transitions ==
    [begin          |-> [make |-> "idle_or_copied"],
     idle_or_copied |-> [prepare |-> "preparing", delete |-> "end",
                         delete_force |-> "end"],
     preparing      |-> [flush_failed |-> "stopped", wait |-> "prepared"],
     end            |-> NoEntry,
     stopped        |-> [prepare |-> "preparing", delete_force |-> "end"],
     prepared       |-> [stop |-> "stopped", start |-> "copying"],
     copying        |-> [wait |-> "idle_or_copied", stop |-> "stopping"],
     stopping       |-> [wait |-> "stopped"]]

Statuses == {"idle_or_copied", "preparing", "prepared", "copying",
             "stopping", "stopped"}
Events == {"prepare", "start", "stop", "wait", "flush_failed", "delete",
           "delete_force"}

HasEntry(status, function) == function \in DOMAIN transitions[status]

\* _state_transition that completes the copy without leaving copying
state_transition_nofinish(function, fcmap) ==
    IF function = "wait" /\ ~HasEntry(fcmap.status, "wait")
    THEN [fcmap |-> fcmap, err |-> ""]
    ELSE IF fcmap.status = "copying" /\ function = "wait"
    THEN IF fcmap.copyrate # "0"
         THEN IF fcmap.progress = "0"
              THEN [fcmap |-> [fcmap EXCEPT !.progress = "50"], err |-> ""]
              ELSE [fcmap |-> [fcmap EXCEPT !.progress = "100"], err |-> ""]
         ELSE [fcmap |-> fcmap, err |-> ""]
    ELSE IF HasEntry(fcmap.status, function)
    THEN [fcmap |-> [fcmap EXCEPT
                        !.status = transitions[fcmap.status][function]],
          err |-> ""]
    ELSE [fcmap |-> fcmap, err |-> "CMMVC5903E"]

\* _state_transition that reports an undefined transition as a success
state_transition_lenient(function, fcmap) ==
    IF function = "wait" /\ ~HasEntry(fcmap.status, "wait")
    THEN [fcmap |-> fcmap, err |-> ""]
    ELSE IF fcmap.status = "copying" /\ function = "wait"
    THEN IF fcmap.copyrate # "0"
         THEN IF fcmap.progress = "0"
              THEN [fcmap |-> [fcmap EXCEPT !.progress = "50"], err |-> ""]
              ELSE [fcmap |-> [fcmap EXCEPT !.progress = "100",
                                            !.status = "idle_or_copied"],
                    err |-> ""]
         ELSE [fcmap |-> fcmap, err |-> ""]
    ELSE IF HasEntry(fcmap.status, function)
    THEN [fcmap |-> [fcmap EXCEPT
                        !.status = transitions[fcmap.status][function]],
          err |-> ""]
    ELSE [fcmap |-> fcmap, err |-> ""]

\* _state_transition that completes the copy at the first wait
state_transition_skip(function, fcmap) ==
    IF function = "wait" /\ ~HasEntry(fcmap.status, "wait")
    THEN [fcmap |-> fcmap, err |-> ""]
    ELSE IF fcmap.status = "copying" /\ function = "wait"
    THEN IF fcmap.copyrate # "0"
         THEN [fcmap |-> [fcmap EXCEPT !.progress = "100",
                                       !.status = "idle_or_copied"],
               err |-> ""]
         ELSE [fcmap |-> fcmap, err |-> ""]
    ELSE IF HasEntry(fcmap.status, function)
    THEN [fcmap |-> [fcmap EXCEPT
                        !.status = transitions[fcmap.status][function]],
          err |-> ""]
    ELSE [fcmap |-> fcmap, err |-> "CMMVC5903E"]

\* _state_transition that starts the copy over when a mapping is prepared
state_transition_reset(function, fcmap) ==
    IF function = "wait" /\ ~HasEntry(fcmap.status, "wait")
    THEN [fcmap |-> fcmap, err |-> ""]
    ELSE IF fcmap.status = "copying" /\ function = "wait"
    THEN IF fcmap.copyrate # "0"
         THEN IF fcmap.progress = "0"
              THEN [fcmap |-> [fcmap EXCEPT !.progress = "50"], err |-> ""]
              ELSE [fcmap |-> [fcmap EXCEPT !.progress = "100",
                                            !.status = "idle_or_copied"],
                    err |-> ""]
         ELSE [fcmap |-> fcmap, err |-> ""]
    ELSE IF HasEntry(fcmap.status, function)
    THEN [fcmap |-> [fcmap EXCEPT
                        !.status = transitions[fcmap.status][function],
                        !.progress = IF function = "prepare" THEN "0"
                                     ELSE @],
          err |-> ""]
    ELSE [fcmap |-> fcmap, err |-> "CMMVC5903E"]

\* _state_transition(function, fcmap): the updated fcmap and the returned
\* (out, err) pair, of which out is always ''.
state_transition(function, fcmap) ==
    IF function = "wait" /\ ~HasEntry(fcmap.status, "wait")
    THEN [fcmap |-> fcmap, err |-> ""]
    ELSE IF fcmap.status = "copying" /\ function = "wait"
    THEN IF fcmap.copyrate # "0"
         THEN IF fcmap.progress = "0"
              THEN [fcmap |-> [fcmap EXCEPT !.progress = "50"], err |-> ""]
              ELSE [fcmap |-> [fcmap EXCEPT !.progress = "100",
                                            !.status = "idle_or_copied"],
                    err |-> ""]
         ELSE [fcmap |-> fcmap, err |-> ""]
    ELSE IF HasEntry(fcmap.status, function)
    THEN [fcmap |-> [fcmap EXCEPT
                        !.status = transitions[fcmap.status][function]],
          err |-> ""]
    ELSE [fcmap |-> fcmap, err |-> "CMMVC5903E"]

(***************************************************************************)
(* _find_unused_id(d): the ids of d's values are sorted and the first      *)
(* index that is smaller than the id at that index is returned, else the   *)
(* number of ids.                                                          *)
(***************************************************************************)
RECURSIVE SortedIds(_, _)
SortedIds(d, n) ==
    IF \A k \in DOMAIN d : d[k].id < n
    THEN <<>>
    ELSE [i \in 1..Cardinality({k \in DOMAIN d : d[k].id = n}) |-> n]
         \o SortedIds(d, n + 1)

find_unused_id(d) ==
    LET ids == SortedIds(d, 0)
        hit == {index \in 0..(Len(ids) - 1) : ids[index + 1] > index}
    IN  IF hit = {} THEN Len(ids)
        ELSE CHOOSE index \in hit : \A j \in hit : index <= j

(***************************************************************************)
(* The simulator's object store as one value, and a command's result.      *)
(***************************************************************************)
Sim == [volumes_list    |-> volumes_list,
        hosts_list      |-> hosts_list,
        mappings_list   |-> mappings_list,
        fcmappings_list |-> fcmappings_list,
        other_pools     |-> other_pools,
        next_cmd_error  |-> next_cmd_error]

Ret(S, o, e) == [sim |-> S, out |-> o, err |-> e, exc |-> ""]
Raise(S, x) == [sim |-> S, out |-> <<>>, err |-> "", exc |-> x]

\* d with key k removed / set
Del(d, k) == [x \in (DOMAIN d) \ {k} |-> d[x]]
Put(d, k, v) == [x \in (DOMAIN d) \cup {k} |-> IF x = k THEN v ELSE d[x]]

(***************************************************************************)
(* _convert_units_bytes(num, unit): multiply by 1024 until the unit at     *)
(* unit_index matches, case-insensitively.  num is a byte count.           *)
(***************************************************************************)
unit_array == <<"B", "KB", "MB", "GB", "TB", "PB">>

\* str.lower() on the unit spellings the model uses
Lower(u) == CASE u \in {"B", "b"}   -> "b"
              [] u \in {"KB", "kb"} -> "kb"
              [] u \in {"MB", "mb"} -> "mb"
              [] u \in {"GB", "gb"} -> "gb"
              [] u \in {"TB", "tb"} -> "tb"
              [] u \in {"PB", "pb"} -> "pb"

RECURSIVE convert_loop(_, _, _)
convert_loop(num, unit, unit_index) ==
    IF Lower(unit) # Lower(unit_array[unit_index + 1])
    THEN convert_loop(BigMulBase(num), unit, unit_index + 1)
    ELSE num

\* _convert_units_bytes that takes every unit for gigabytes
convert_units_bytes_gb(num, unit) == convert_loop(num, "gb", 0)

convert_units_bytes(num, unit) == convert_loop(num, unit, 0)

(***************************************************************************)
(* Volume commands.                                                        *)
(***************************************************************************)
NoArg == "<absent>"

\* _cmd_mkvdisk with -name, -size, -unit, -iogrp given and -easytier
\* given or not; size is int(kwargs['size']) as a byte count.  Without -easytier the copy record reads a key that was
\* never set and the command raises KeyError before anything is stored.
cmd_mkvdisk(S, name, size, unit, easytier) ==
    LET id == find_unused_id(S.volumes_list)
        capacity == convert_units_bytes(size, unit)
        easy_tier == IF easytier = "on" THEN "on" ELSE "off"
        vol_cp == [id |-> 0, sync |-> "yes", primary |-> "yes",
                   mdisk_grp_name |-> "openstack", easy_tier |-> easy_tier]
        volume_info == [id |-> id, name |-> name, capacity |-> capacity,
                        easy_tier |-> easy_tier,
                        copies |-> (0 :> vol_cp)]
    IN  IF easytier = NoArg
        THEN Raise(S, "KeyError")
        ELSE IF name \in DOMAIN S.volumes_list
        THEN Ret(S, <<>>, "CMMVC6035E")
        ELSE Ret([S EXCEPT !.volumes_list = Put(@, name, volume_info)],
                 <<[id |-> id]>>, "")

\* _cmd_rmvdisk that does not look at the host mappings
cmd_rmvdisk_unmapped(S, vol_name, force) ==
    IF vol_name \notin DOMAIN S.volumes_list
    THEN Ret(S, <<>>, "CMMVC5753E")
    ELSE IF ~force
            /\ \E k \in DOMAIN S.fcmappings_list :
                   \/ S.fcmappings_list[k].source = vol_name
                   \/ S.fcmappings_list[k].target = vol_name
    THEN Ret(S, <<>>, "CMMVC5840E")
    ELSE Ret([S EXCEPT !.volumes_list = Del(@, vol_name)], <<>>, "")

\* _cmd_rmvdisk
cmd_rmvdisk(S, vol_name, force) ==
    IF vol_name \notin DOMAIN S.volumes_list
    THEN Ret(S, <<>>, "CMMVC5753E")
    ELSE IF ~force
            /\ ( \/ \E k \in DOMAIN S.mappings_list :
                        S.mappings_list[k].vol = vol_name
                 \/ \E k \in DOMAIN S.fcmappings_list :
                        \/ S.fcmappings_list[k].source = vol_name
                        \/ S.fcmappings_list[k].target = vol_name )
    THEN Ret(S, <<>>, "CMMVC5840E")
    ELSE Ret([S EXCEPT !.volumes_list = Del(@, vol_name)], <<>>, "")

\* _cmd_expandvdisksize that makes the capacity the size given
cmd_expandvdisksize_set(S, vol_name, size) ==
    IF vol_name \notin DOMAIN S.volumes_list
    THEN Ret(S, <<>>, "CMMVC5753E")
    ELSE Ret([S EXCEPT !.volumes_list[vol_name].capacity = TimesGiB(size)],
             <<>>, "")

\* _cmd_expandvdisksize
cmd_expandvdisksize(S, vol_name, size) ==
    IF vol_name \notin DOMAIN S.volumes_list
    THEN Ret(S, <<>>, "CMMVC5753E")
    ELSE LET curr_size == S.volumes_list[vol_name].capacity
             addition  == TimesGiB(size)
         IN  Ret([S EXCEPT !.volumes_list[vol_name].capacity =
                               BigAdd(curr_size, addition)], <<>>, "")

\* _get_fcmap_info(vol_name).fc_map_count
fc_map_count(S, vol_name) ==
    IF \E k \in DOMAIN S.fcmappings_list :
           \/ S.fcmappings_list[k].source = vol_name
           \/ S.fcmappings_list[k].target = vol_name
    THEN 1 ELSE 0

\* _cmd_lsvdisk for one object (lsvdisk -bytes -delim ! <name>): the
\* attribute rows that depend on the store.  The capacity row is the
\* stored byte count whether or not -bytes is given.
cmd_lsvdisk(S, obj) ==
    IF obj \notin DOMAIN S.volumes_list
    THEN Ret(S, <<>>, "CMMVC5754E")
    ELSE LET vol == S.volumes_list[obj]
         IN  Ret(S, <<[id |-> vol.id, name |-> vol.name,
                       capacity |-> vol.capacity,
                       fc_map_count |-> fc_map_count(S, vol.name)]>>, "")

(***************************************************************************)
(* FlashCopy mapping commands.                                             *)
(***************************************************************************)
\* _cmd_mkfcmap
cmd_mkfcmap(S, source, target, copyrate, autodelete) ==
    IF source \notin DOMAIN S.volumes_list
    THEN Ret(S, <<>>, "CMMVC5754E")
    ELSE IF target \notin DOMAIN S.volumes_list
    THEN Ret(S, <<>>, "CMMVC5754E")
    ELSE IF source = target
    THEN Ret(S, <<>>, "CMMVC6303E")
    ELSE IF S.volumes_list[source].capacity # S.volumes_list[target].capacity
    THEN Ret(S, <<>>, "CMMVC5924E")
    ELSE LET id == find_unused_id(S.fcmappings_list)
             fcmap_info == [source |-> source, target |-> target, id |-> id,
                            copyrate |-> copyrate, progress |-> "0",
                            autodelete |-> autodelete,
                            status |-> "idle_or_copied"]
         IN  Ret([S EXCEPT !.fcmappings_list = Put(@, id, fcmap_info)],
                 <<[id |-> id]>>, "")

\* The lookup shared by prestartfcmap, startfcmap and rmfcmap: an injected
\* 'bad_id' replaces the id by -1 and is consumed.
BadId == -1

injected_id(S, cmd, id_num) ==
    IF S.next_cmd_error[cmd] = "bad_id" THEN BadId ELSE id_num

consume(S, cmd) ==
    IF S.next_cmd_error[cmd] = "bad_id"
    THEN [S EXCEPT !.next_cmd_error[cmd] = ""]
    ELSE S

\* apply `function` to the mapping id_num of S
fcmap_event(S, id_num, function) ==
    IF id_num \notin DOMAIN S.fcmappings_list
    THEN Ret(S, <<>>, "CMMVC5753E")
    ELSE LET r == state_transition(function, S.fcmappings_list[id_num])
         IN  Ret([S EXCEPT !.fcmappings_list[id_num] = r.fcmap], <<>>, r.err)

\* _cmd_gen_prestartfcmap
cmd_gen_prestartfcmap(S, obj) ==
    fcmap_event(consume(S, "prestartfcmap"),
                injected_id(S, "prestartfcmap", obj), "prepare")

\* _cmd_gen_startfcmap
cmd_gen_startfcmap(S, obj) ==
    fcmap_event(consume(S, "startfcmap"),
                injected_id(S, "startfcmap", obj), "start")

\* _cmd_stopfcmap that reports success without stopping the mapping
cmd_stopfcmap_ignored(S, obj) ==
    IF obj \notin DOMAIN S.fcmappings_list
    THEN Ret(S, <<>>, "CMMVC5753E")
    ELSE Ret(S, <<>>, "")

\* _cmd_stopfcmap
cmd_stopfcmap(S, obj) == fcmap_event(S, obj, "stop")

\* _cmd_rmfcmap that leaves the ended mapping in the store
cmd_rmfcmap_keep(S, obj, force) ==
    fcmap_event(consume(S, "rmfcmap"), injected_id(S, "rmfcmap", obj),
                IF force THEN "delete_force" ELSE "delete")

\* _cmd_rmfcmap
cmd_rmfcmap(S, obj, force) ==
    LET function == IF force THEN "delete_force" ELSE "delete"
        r == fcmap_event(consume(S, "rmfcmap"),
                         injected_id(S, "rmfcmap", obj), function)
        id_num == injected_id(S, "rmfcmap", obj)
    IN  IF id_num \in DOMAIN r.sim.fcmappings_list
           /\ r.sim.fcmappings_list[id_num].status = "end"
        THEN [r EXCEPT !.sim.fcmappings_list = Del(@, id_num)]
        ELSE r

\* _cmd_chfcmap with -copyrate and/or -autodelete
cmd_chfcmap(S, obj, copyrate, autodelete) ==
    IF obj \notin DOMAIN S.fcmappings_list
    THEN Ret(S, <<>>, "CMMVC5753E")
    ELSE LET f0 == S.fcmappings_list[obj]
             f1 == IF copyrate = NoArg THEN f0
                   ELSE [f0 EXCEPT !.copyrate = copyrate]
             f2 == IF autodelete THEN [f1 EXCEPT !.autodelete = TRUE] ELSE f1
         IN  Ret([S EXCEPT !.fcmappings_list[obj] = f2], <<>>, "")

\* The 'speed_up' loop of _cmd_lsfcmap: wait until the status stops
\* changing.
RECURSIVE speed_up(_, _)
speed_up(v, curr_state) ==
    LET r == state_transition("wait", v)
    IN  IF r.err # "" THEN r.fcmap
        ELSE IF curr_state = r.fcmap.status THEN r.fcmap
        ELSE speed_up(r.fcmap, r.fcmap.status)

\* the removal test of _cmd_lsfcmap without the autodelete flag
auto_delete_any(v) ==
    \/ v.status = "idle_or_copied" /\ v.progress = "100"
    \/ v.status = "end"

\* the removal test of _cmd_lsfcmap, on the mapping after its wait
auto_delete(v) ==
    \/ /\ v.status = "idle_or_copied"
       /\ v.autodelete
       /\ v.progress = "100"
    \/ v.status = "end"

\* str(v[filter_key]) == filter_value
filter_match(v, filter_key, filter_value) == v[filter_key] = filter_value

\* the row _cmd_lsfcmap prints for a mapping
fcmap_row(v) ==
    [id |-> v.id, source_vdisk_name |-> v.source,
     target_vdisk_name |-> v.target, status |-> v.status,
     progress |-> v.progress, copy_rate |-> v.copyrate]

\* the mapping v1, which has had its wait, after the 'speed_up' loop if
\* 'speed_up' is injected (sp)
sped_up(v1, sp) == IF sp THEN speed_up(v1, v1.status) ELSE v1

\* acc after the matching mapping k has been examined and left as v2:
\* v2 is stored, 'speed_up' is consumed, and v2 is either listed or put
\* on to_delete
lsfcmap_examined(acc, k, v2, sp) ==
    [sim |-> [acc.sim EXCEPT
                 !.fcmappings_list[k] = v2,
                 !.next_cmd_error["lsfcmap"] = IF sp THEN "" ELSE @],
     rows |-> IF auto_delete(v2) THEN acc.rows
              ELSE Append(acc.rows, fcmap_row(v2)),
     to_delete |-> IF auto_delete(v2) THEN acc.to_delete \cup {k}
                   ELSE acc.to_delete,
     exc |-> ""]

\* The loop of _cmd_lsfcmap over the mappings in the order `keys` (the
\* iteration order of the dictionary, a sequence of its keys).  acc holds
\* the store, the rows printed so far and to_delete.  Reading the source
\* or target volume of a mapping whose volume is gone raises KeyError and
\* abandons the command with the waits already applied.
RECURSIVE lsfcmap_loop(_, _, _, _)
lsfcmap_loop(acc, keys, filter_key, filter_value) ==
    IF keys = <<>> \/ acc.exc # "" THEN acc
    ELSE IF ~filter_match(acc.sim.fcmappings_list[Head(keys)],
                          filter_key, filter_value)
    THEN lsfcmap_loop(acc, Tail(keys), filter_key, filter_value)
    ELSE IF \/ acc.sim.fcmappings_list[Head(keys)].source
                   \notin DOMAIN acc.sim.volumes_list
            \/ acc.sim.fcmappings_list[Head(keys)].target
                   \notin DOMAIN acc.sim.volumes_list
    THEN [acc EXCEPT !.exc = "KeyError"]
    ELSE lsfcmap_loop(
             lsfcmap_examined(
                 acc, Head(keys),
                 sped_up(state_transition(
                             "wait",
                             acc.sim.fcmappings_list[Head(keys)]).fcmap,
                         acc.sim.next_cmd_error["lsfcmap"] = "speed_up"),
                 acc.sim.next_cmd_error["lsfcmap"] = "speed_up"),
             Tail(keys), filter_key, filter_value)

\* the end of _cmd_lsfcmap: the mappings on to_delete leave the store and
\* the rows are printed
lsfcmap_output(acc) ==
    IF acc.exc # ""
    THEN Raise(acc.sim, acc.exc)
    ELSE Ret([acc.sim EXCEPT !.fcmappings_list =
                 [x \in (DOMAIN @) \ acc.to_delete |-> @[x]]],
             acc.rows, "")

\* _cmd_lsfcmap with -filtervalue filter_key=filter_value
cmd_lsfcmap(S, keys, filter_key, filter_value) ==
    lsfcmap_output(lsfcmap_loop([sim |-> S, rows |-> <<>>,
                                 to_delete |-> {}, exc |-> ""],
                                keys, filter_key, filter_value))

\* _cmd_lsvdiskfcmappings that finds no mapping
cmd_lsvdiskfcmappings_none(S, keys, vdisk) == Ret(S, <<>>, "")

\* _cmd_lsvdiskfcmappings
cmd_lsvdiskfcmappings(S, keys, vdisk) ==
    LET hit(k) == \/ S.fcmappings_list[k].source = vdisk
                  \/ S.fcmappings_list[k].target = vdisk
        ks == SelectSeq(keys, hit)
    IN  Ret(S, [i \in 1..Len(ks) |-> [id |-> S.fcmappings_list[ks[i]].id]],
            "")

(***************************************************************************)
(* Host commands.  A host_info holds its id, its name, the lists           *)
(* iscsi_names and wwpns, and chapsecret once chhost has set it.           *)
(***************************************************************************)
\* _is_invalid_name: a name must start with a letter or an underscore;
\* of the names the model uses only the empty one does not
is_invalid_name(name) == name = ""

\* 'host' + str(id), the name of a host made without -name
default_host_name(id) == <<"host0", "host1", "host2", "host3">>[id + 1]

\* some element of the port list is val
has_port(ports, val) == \E i \in 1..Len(ports) : ports[i] = val

\* the port list of host v that -iscsiname or -hbawwpn adds to
ports_of(v, added_key) ==
    IF added_key = "iscsi_names" THEN v.iscsi_names ELSE v.wwpns

\* _add_port_to_host: the port is appended to host_info before the other
\* hosts are searched for it, so host_info has it whatever the result
add_port_to_host(S, host_info, key, val) ==
    IF key \notin {"iscsiname", "hbawwpn"}
    THEN [host_info |-> host_info, err |-> "CMMVC5707E"]
    ELSE [host_info |->
              IF key = "iscsiname"
              THEN [host_info EXCEPT !.iscsi_names = Append(@, val)]
              ELSE [host_info EXCEPT !.wwpns = Append(@, val)],
          err |->
              IF \E k \in DOMAIN S.hosts_list :
                     /\ S.hosts_list[k].id # host_info.id
                     /\ has_port(ports_of(S.hosts_list[k],
                                          IF key = "iscsiname"
                                          THEN "iscsi_names" ELSE "wwpns"),
                                 val)
              THEN "CMMVC6581E" ELSE ""]

\* the host_info _cmd_mkhost starts from
new_host(id, host_name) ==
    [id |-> id, host_name |-> host_name, iscsi_names |-> <<>>,
     wwpns |-> <<>>, chapsecret |-> NoArg]

\* what _cmd_mkhost does with the port it tried to add
mkhost_store(S, host_name, p) ==
    IF p.err = ""
    THEN Ret([S EXCEPT !.hosts_list = Put(@, host_name, p.host_info)],
             <<[id |-> p.host_info.id]>>, "")
    ELSE Ret(S, <<>>, p.err)

\* _cmd_mkhost once the name is known
mkhost_named(S, id, host_name, key, val) ==
    IF is_invalid_name(host_name) THEN Ret(S, <<>>, "CMMVC6527E")
    ELSE IF host_name \in DOMAIN S.hosts_list
    THEN Ret(S, <<>>, "CMMVC6035E")
    ELSE mkhost_store(S, host_name,
                      add_port_to_host(S, new_host(id, host_name), key, val))

\* _cmd_mkhost with -name given or not, and -iscsiname or -hbawwpn
cmd_mkhost(S, name, key, val) ==
    mkhost_named(S, find_unused_id(S.hosts_list),
                 IF name # NoArg THEN name
                 ELSE default_host_name(find_unused_id(S.hosts_list)),
                 key, val)

\* _cmd_addhostport: the list it appends to is the stored host's own
cmd_addhostport(S, obj, key, val) ==
    IF obj = NoArg THEN Ret(S, <<>>, "CMMVC5701E")
    ELSE IF obj \notin DOMAIN S.hosts_list THEN Ret(S, <<>>, "CMMVC5753E")
    ELSE Ret([S EXCEPT !.hosts_list[obj] =
                  add_port_to_host(S, S.hosts_list[obj], key, val).host_info],
             <<>>,
             add_port_to_host(S, S.hosts_list[obj], key, val).err)

\* _cmd_chhost: the secret it stores is read from the object argument
cmd_chhost(S, obj, chapsecret) ==
    IF chapsecret = NoArg THEN Ret(S, <<>>, "CMMVC5707E")
    ELSE IF obj = NoArg THEN Raise(S, "KeyError")
    ELSE IF obj \notin DOMAIN S.hosts_list THEN Ret(S, <<>>, "CMMVC5753E")
    ELSE Ret([S EXCEPT !.hosts_list[obj].chapsecret = obj], <<>>, "")

\* _cmd_rmhost that removes a host whatever is mapped to it
cmd_rmhost_mapped(S, obj) ==
    IF obj = NoArg THEN Ret(S, <<>>, "CMMVC5701E")
    ELSE IF obj \notin DOMAIN S.hosts_list THEN Ret(S, <<>>, "CMMVC5753E")
    ELSE Ret([S EXCEPT !.hosts_list = Del(@, obj)], <<>>, "")

\* _cmd_rmhost
cmd_rmhost(S, obj) ==
    IF obj = NoArg THEN Ret(S, <<>>, "CMMVC5701E")
    ELSE IF obj \notin DOMAIN S.hosts_list THEN Ret(S, <<>>, "CMMVC5753E")
    ELSE IF \E k \in DOMAIN S.mappings_list : S.mappings_list[k].host = obj
    THEN Ret(S, <<>>, "CMMVC5871E")
    ELSE Ret([S EXCEPT !.hosts_list = Del(@, obj)], <<>>, "")

\* the rows of lshost without an object, in the order keys
RECURSIVE lshost_rows(_, _, _)
lshost_rows(S, keys, filtervalue) ==
    IF keys = <<>> THEN <<>>
    ELSE (IF filtervalue \in {NoArg, S.hosts_list[Head(keys)].host_name}
          THEN <<[id |-> S.hosts_list[Head(keys)].id,
                  name |-> S.hosts_list[Head(keys)].host_name]>>
          ELSE <<>>)
         \o lshost_rows(S, Tail(keys), filtervalue)

\* _cmd_lshost: without an object the hosts that pass -filtervalue
\* name=<filtervalue>, all of them when it is absent, and no output at
\* all when none passes; with an object that host and its ports
cmd_lshost(S, keys, obj, filtervalue) ==
    IF obj = NoArg
    THEN Ret(S, lshost_rows(S, keys, filtervalue), "")
    ELSE IF obj \notin DOMAIN S.hosts_list THEN Ret(S, <<>>, "CMMVC5754E")
    ELSE Ret(S, <<[id |-> S.hosts_list[obj].id,
                   name |-> S.hosts_list[obj].host_name,
                   iscsi_name |-> S.hosts_list[obj].iscsi_names,
                   WWPN |-> S.hosts_list[obj].wwpns]>>, "")

(***************************************************************************)
(* Host mapping commands.  _mappings_list is keyed by the mapping's id as  *)
(* a string; the id field of a mapping_info is that id as a number.        *)
(***************************************************************************)
\* str(id)
id_str(id) == <<"0", "1", "2", "3", "4">>[id + 1]

\* _cmd_mkvdiskhostmap that does not look for the host
cmd_mkvdiskhostmap_anyhost(S, host, scsi, obj, force) ==
    IF host = NoArg \/ scsi = NoArg \/ obj = NoArg
    THEN Ret(S, <<>>, "CMMVC5707E")
    ELSE IF obj \notin DOMAIN S.volumes_list THEN Ret(S, <<>>, "CMMVC5753E")
    ELSE IF obj \in DOMAIN S.mappings_list THEN Ret(S, <<>>, "CMMVC6071E")
    ELSE IF \E k \in DOMAIN S.mappings_list :
                /\ S.mappings_list[k].host = host
                /\ S.mappings_list[k].lun = scsi
    THEN Ret(S, <<>>, "CMMVC5879E")
    ELSE IF ~force /\ \E k \in DOMAIN S.mappings_list :
                          S.mappings_list[k].lun = scsi
    THEN Ret(S, <<>>, "CMMVC6071E")
    ELSE Ret([S EXCEPT !.mappings_list =
                  Put(@, id_str(find_unused_id(S.mappings_list)),
                      [id |-> find_unused_id(S.mappings_list),
                       host |-> host, lun |-> scsi, vol |-> obj])],
             <<[id |-> find_unused_id(S.mappings_list)]>>, "")

\* _cmd_mkvdiskhostmap that does not look for the host's LUN
cmd_mkvdiskhostmap_nopair(S, host, scsi, obj, force) ==
    IF host = NoArg \/ scsi = NoArg \/ obj = NoArg
    THEN Ret(S, <<>>, "CMMVC5707E")
    ELSE IF obj \notin DOMAIN S.volumes_list THEN Ret(S, <<>>, "CMMVC5753E")
    ELSE IF host \notin DOMAIN S.hosts_list THEN Ret(S, <<>>, "CMMVC5754E")
    ELSE IF obj \in DOMAIN S.mappings_list THEN Ret(S, <<>>, "CMMVC6071E")
    ELSE IF ~force /\ \E k \in DOMAIN S.mappings_list :
                          S.mappings_list[k].lun = scsi
    THEN Ret(S, <<>>, "CMMVC6071E")
    ELSE Ret([S EXCEPT !.mappings_list =
                  Put(@, id_str(find_unused_id(S.mappings_list)),
                      [id |-> find_unused_id(S.mappings_list),
                       host |-> host, lun |-> scsi, vol |-> obj])],
             <<[id |-> find_unused_id(S.mappings_list)]>>, "")

\* _cmd_mkvdiskhostmap.  The volume's name is looked up among the keys of
\* _mappings_list, which are mapping ids.
cmd_mkvdiskhostmap(S, host, scsi, obj, force) ==
    IF host = NoArg \/ scsi = NoArg \/ obj = NoArg
    THEN Ret(S, <<>>, "CMMVC5707E")
    ELSE IF obj \notin DOMAIN S.volumes_list THEN Ret(S, <<>>, "CMMVC5753E")
    ELSE IF host \notin DOMAIN S.hosts_list THEN Ret(S, <<>>, "CMMVC5754E")
    ELSE IF obj \in DOMAIN S.mappings_list THEN Ret(S, <<>>, "CMMVC6071E")
    ELSE IF \E k \in DOMAIN S.mappings_list :
                /\ S.mappings_list[k].host = host
                /\ S.mappings_list[k].lun = scsi
    THEN Ret(S, <<>>, "CMMVC5879E")
    ELSE IF ~force /\ \E k \in DOMAIN S.mappings_list :
                          S.mappings_list[k].lun = scsi
    THEN Ret(S, <<>>, "CMMVC6071E")
    ELSE Ret([S EXCEPT !.mappings_list =
                  Put(@, id_str(find_unused_id(S.mappings_list)),
                      [id |-> find_unused_id(S.mappings_list),
                       host |-> host, lun |-> scsi, vol |-> obj])],
             <<[id |-> find_unused_id(S.mappings_list)]>>, "")

\* the last key in the order keys whose mapping is of vol to host, NoArg
\* when there is none
RECURSIVE this_mapping(_, _, _, _, _)
this_mapping(S, keys, host, vol, found) ==
    IF keys = <<>> THEN found
    ELSE this_mapping(S, Tail(keys), host, vol,
                      IF /\ S.mappings_list[Head(keys)].vol = vol
                         /\ S.mappings_list[Head(keys)].host = host
                      THEN Head(keys) ELSE found)

\* _cmd_rmvdiskhostmap; keys is the order the mappings are iterated in
cmd_rmvdiskhostmap(S, keys, host, obj) ==
    IF host = NoArg THEN Ret(S, <<>>, "CMMVC5707E")
    ELSE IF obj = NoArg THEN Ret(S, <<>>, "CMMVC5701E")
    ELSE IF this_mapping(S, keys, host, obj, NoArg) = NoArg
    THEN Ret(S, <<>>, "CMMVC5753E")
    ELSE Ret([S EXCEPT !.mappings_list =
                  Del(@, this_mapping(S, keys, host, obj, NoArg))],
             <<>>, "")

\* the rows of lshostvdiskmap, in the order keys
RECURSIVE lshostvdiskmap_rows(_, _, _)
lshostvdiskmap_rows(S, keys, obj) ==
    IF keys = <<>> THEN <<>>
    ELSE (IF S.mappings_list[Head(keys)].host = obj
          THEN <<[id |-> S.mappings_list[Head(keys)].id,
                  name |-> S.mappings_list[Head(keys)].host,
                  SCSI_id |-> S.mappings_list[Head(keys)].lun,
                  vdisk_id |->
                      S.volumes_list[S.mappings_list[Head(keys)].vol].id,
                  vdisk_name |-> S.mappings_list[Head(keys)].vol]>>
          ELSE <<>>)
         \o lshostvdiskmap_rows(S, Tail(keys), obj)

\* _cmd_lshostvdiskmap that shows no mapping
cmd_lshostvdiskmap_none(S, keys, obj) ==
    IF obj \notin DOMAIN S.hosts_list THEN Ret(S, <<>>, "CMMVC5754E")
    ELSE Ret(S, <<>>, "")

\* _cmd_lshostvdiskmap: the mappings of a host; the row of a mapping whose
\* volume is gone cannot be made and the command raises KeyError
cmd_lshostvdiskmap(S, keys, obj) ==
    IF obj \notin DOMAIN S.hosts_list THEN Ret(S, <<>>, "CMMVC5754E")
    ELSE IF \E k \in DOMAIN S.mappings_list :
                /\ S.mappings_list[k].host = obj
                /\ S.mappings_list[k].vol \notin DOMAIN S.volumes_list
    THEN Raise(S, "KeyError")
    ELSE Ret(S, lshostvdiskmap_rows(S, keys, obj), "")

\* the rows of lsvdiskhostmap, in the order keys
RECURSIVE lsvdiskhostmap_rows(_, _, _)
lsvdiskhostmap_rows(S, keys, obj) ==
    IF keys = <<>> THEN <<>>
    ELSE (IF S.mappings_list[Head(keys)].vol = obj
          THEN <<[SCSI_id |-> S.mappings_list[Head(keys)].vol,
                  host_id |->
                      S.hosts_list[S.mappings_list[Head(keys)].host].id,
                  host_name |-> S.mappings_list[Head(keys)].host]>>
          ELSE <<>>)
         \o lsvdiskhostmap_rows(S, Tail(keys), obj)

\* _cmd_lsvdiskhostmap that shows the mappings of every volume
cmd_lsvdiskhostmap_all(S, keys, obj) ==
    IF obj \notin DOMAIN S.volumes_list THEN Ret(S, <<>>, "CMMVC5753E")
    ELSE Ret(S, [i \in 1..Len(keys) |->
                    [SCSI_id |-> S.mappings_list[keys[i]].vol,
                     host_id |->
                         S.hosts_list[S.mappings_list[keys[i]].host].id,
                     host_name |-> S.mappings_list[keys[i]].host]],
             "")

\* _cmd_lsvdiskhostmap: the mappings of a volume, no output when it has
\* none.  The columns are one short of the header's names, so the host's
\* id and name are the ones that stand under host_id and host_name.
cmd_lsvdiskhostmap(S, keys, obj) ==
    IF obj \notin DOMAIN S.volumes_list THEN Ret(S, <<>>, "CMMVC5753E")
    ELSE IF \E k \in DOMAIN S.mappings_list :
                /\ S.mappings_list[k].vol = obj
                /\ S.mappings_list[k].host \notin DOMAIN S.hosts_list
    THEN Raise(S, "KeyError")
    ELSE Ret(S, lsvdiskhostmap_rows(S, keys, obj), "")

(***************************************************************************)
(* Volume copy and migration commands.  A volume's copies are keyed by     *)
(* their id; easy_tier is NoArg on a copy that was added without           *)
(* -easytier.  -rsize is always given with addvdiskcopy.                   *)
(***************************************************************************)
\* the pool of the simulator's own volumes
volpool_name == "openstack"

\* _cmd_addvdiskcopy
cmd_addvdiskcopy(S, obj, mdiskgrp, easytier) ==
    IF obj = NoArg THEN Ret(S, <<>>, "CMMVC5701E")
    ELSE IF obj \notin DOMAIN S.volumes_list THEN Ret(S, <<>>, "CMMVC5753E")
    ELSE IF mdiskgrp = NoArg THEN Ret(S, <<>>, "CMMVC5707E")
    ELSE Ret([S EXCEPT !.volumes_list[obj].copies =
                  Put(@, find_unused_id(@),
                      [id |-> find_unused_id(@), sync |-> "no",
                       primary |-> "no", mdisk_grp_name |-> mdiskgrp,
                       easy_tier |-> IF easytier = NoArg THEN NoArg
                                     ELSE IF easytier = "on" THEN "on"
                                     ELSE "off"])],
             <<[vid |-> S.volumes_list[obj].id,
                cid |-> find_unused_id(S.volumes_list[obj].copies)]>>, "")

\* int(copy), for the -copy argument of a command
copy_id(copy) == CHOOSE i \in 0..4 : id_str(i) = copy

\* the rows of lsvdiskcopy without -copy, in the order keys
RECURSIVE lsvdiskcopy_rows(_, _)
lsvdiskcopy_rows(vol, keys) ==
    IF keys = <<>> THEN <<>>
    ELSE <<[vdisk_name |-> vol.name, copy_id |-> vol.copies[Head(keys)].id,
            sync |-> vol.copies[Head(keys)].sync,
            primary |-> vol.copies[Head(keys)].primary,
            mdisk_grp_name |-> vol.copies[Head(keys)].mdisk_grp_name,
            capacity |-> vol.capacity,
            easy_tier |-> vol.copies[Head(keys)].easy_tier]>>
         \o lsvdiskcopy_rows(vol, Tail(keys))

\* _cmd_lsvdiskcopy.  A volume that is not stored, and a copy without
\* easy_tier, raise KeyError; with -copy the copy is marked synchronised
\* once its sync row is made, before its easy_tier is read.
cmd_lsvdiskcopy(S, keys, obj, copy) ==
    IF obj = NoArg THEN Ret(S, <<>>, "CMMVC5804E")
    ELSE IF obj \notin DOMAIN S.volumes_list THEN Raise(S, "KeyError")
    ELSE IF \E k \in DOMAIN S.volumes_list[obj].copies :
                S.volumes_list[obj].copies[k].easy_tier = NoArg
    THEN Raise(S, "KeyError")
    ELSE IF copy = NoArg
    THEN Ret(S, lsvdiskcopy_rows(S.volumes_list[obj], keys), "")
    ELSE IF copy_id(copy) \notin DOMAIN S.volumes_list[obj].copies
    THEN Ret(S, <<>>, "CMMVC6353E")
    ELSE Ret([S EXCEPT !.volumes_list[obj].copies[copy_id(copy)].sync =
                           "yes"],
             lsvdiskcopy_rows(S.volumes_list[obj], <<copy_id(copy)>>), "")

\* _cmd_rmvdiskcopy
cmd_rmvdiskcopy(S, obj, copy) ==
    IF obj = NoArg THEN Ret(S, <<>>, "CMMVC5701E")
    ELSE IF copy = NoArg THEN Ret(S, <<>>, "CMMVC5707E")
    ELSE IF obj \notin DOMAIN S.volumes_list THEN Ret(S, <<>>, "CMMVC5753E")
    ELSE IF copy_id(copy) \notin DOMAIN S.volumes_list[obj].copies
    THEN Ret(S, <<>>, "CMMVC6353E")
    ELSE Ret([S EXCEPT !.volumes_list[obj].copies = Del(@, copy_id(copy))],
             <<>>, "")

\* vdisk in pool, where pool is a key of _other_pools: whether the volume's
\* name is part of the pool's name.  None of the model's names is.
in_pool_name(vdisk, pool) == vdisk \in {pool, volpool_name}

\* _cmd_migratevdisk.  A volume that is not among the simulator's own is
\* looked for in the names of the other pools, not in the pools; the
\* current and the target pool are compared by what they hold.
cmd_migratevdisk(S, mdiskgrp, vdisk) ==
    IF mdiskgrp = NoArg \/ vdisk = NoArg THEN Ret(S, <<>>, "CMMVC5707E")
    ELSE IF vdisk \notin DOMAIN S.volumes_list
    THEN (IF \E pool \in DOMAIN S.other_pools : in_pool_name(vdisk, pool)
          THEN Raise(S, "TypeError")
          ELSE Ret(S, <<>>, "CMMVC5754E"))
    ELSE IF mdiskgrp = volpool_name THEN Ret(S, <<>>, "CMMVC6430E")
    ELSE IF mdiskgrp \notin DOMAIN S.other_pools
    THEN Ret(S, <<>>, "CMMVC5754E")
    ELSE IF S.volumes_list = S.other_pools[mdiskgrp]
    THEN Ret(S, <<>>, "CMMVC6430E")
    ELSE Ret([S EXCEPT !.other_pools[mdiskgrp] =
                           Put(@, vdisk, S.volumes_list[vdisk]),
                       !.volumes_list = Del(@, vdisk)],
             <<>>, "")

\* The orders in which a dictionary with key set K can be iterated.
Orders(K) == {s \in [1..Cardinality(K) -> K] :
                 \A i, j \in 1..Cardinality(K) : i # j => s[i] # s[j]}

\* error_injection(cmd, error), for the injections the simulator consumes
\* in the FlashCopy commands
Injections == {<<"lsfcmap", "speed_up">>, <<"prestartfcmap", "bad_id">>,
               <<"startfcmap", "bad_id">>, <<"rmfcmap", "bad_id">>}

error_injection(S, cmd, error) == [S EXCEPT !.next_cmd_error[cmd] = error]

(***************************************************************************)
(* Actions: execute_command(cmd, check_exit_code=False) for each command.  *)
(***************************************************************************)
Apply(r, l) ==
    /\ volumes_list' = r.sim.volumes_list
    /\ hosts_list' = r.sim.hosts_list
    /\ mappings_list' = r.sim.mappings_list
    /\ fcmappings_list' = r.sim.fcmappings_list
    /\ other_pools' = r.sim.other_pools
    /\ next_cmd_error' = r.sim.next_cmd_error
    /\ out' = r.out
    /\ err' = r.err
    /\ exc' = r.exc
    /\ last' = l
    /\ nfs' = nfs
    /\ netapp' = netapp

\* The command, the object it names, its -force flag, and the status the
\* FlashCopy mapping it names had before it ("" when it names none).
Cmd(c, o, f, p) == [cmd |-> c, obj |-> o, force |-> f, pre |-> p]

StatusOf(id) ==
    IF id \in DOMAIN fcmappings_list THEN fcmappings_list[id].status ELSE ""

Mkvdisk(name, size, unit, easytier) ==
    Apply(cmd_mkvdisk(Sim, name, BigOfInt(size), unit, easytier),
          Cmd("mkvdisk", <<name, size, unit, easytier>>, FALSE, ""))

Rmvdisk(name, force) ==
    Apply(cmd_rmvdisk(Sim, name, force), Cmd("rmvdisk", name, force, ""))

Expandvdisksize(name, size) ==
    /\ name \in DOMAIN volumes_list =>
           BelowGiB(volumes_list[name].capacity, MaxCapGiB)
    /\ Apply(cmd_expandvdisksize(Sim, name, size),
             Cmd("expandvdisksize", <<name, size>>, FALSE, ""))

Lsvdisk(name) ==
    Apply(cmd_lsvdisk(Sim, name), Cmd("lsvdisk", name, FALSE, ""))

Mkfcmap(source, target, copyrate, autodelete) ==
    /\ Cardinality(DOMAIN fcmappings_list) < MaxFcmaps
    /\ Apply(cmd_mkfcmap(Sim, source, target, copyrate, autodelete),
             Cmd("mkfcmap", target, FALSE, ""))

Prestartfcmap(id) ==
    Apply(cmd_gen_prestartfcmap(Sim, id),
          Cmd("prestartfcmap", id, FALSE, StatusOf(id)))

Startfcmap(id) ==
    Apply(cmd_gen_startfcmap(Sim, id),
          Cmd("startfcmap", id, FALSE, StatusOf(id)))

Stopfcmap(id) ==
    Apply(cmd_stopfcmap(Sim, id), Cmd("stopfcmap", id, FALSE, StatusOf(id)))

Rmfcmap(id, force) ==
    Apply(cmd_rmfcmap(Sim, id, force),
          Cmd("rmfcmap", id, force, StatusOf(id)))

Chfcmap(id, copyrate, autodelete) ==
    Apply(cmd_chfcmap(Sim, id, copyrate, autodelete),
          Cmd("chfcmap", id, FALSE, StatusOf(id)))

\* lsfcmap -filtervalue id=<id>
LsfcmapId(id) ==
    \E keys \in Orders(DOMAIN fcmappings_list) :
        Apply(cmd_lsfcmap(Sim, keys, "id", id),
              Cmd("lsfcmap", id, FALSE, StatusOf(id)))

\* lsfcmap -filtervalue source=<name> or target=<name>
LsfcmapVol(filter_key, name) ==
    \E keys \in Orders(DOMAIN fcmappings_list) :
        Apply(cmd_lsfcmap(Sim, keys, filter_key, name),
              Cmd("lsfcmap_vol", <<filter_key, name>>, FALSE, ""))

Lsvdiskfcmappings(vdisk) ==
    \E keys \in Orders(DOMAIN fcmappings_list) :
        Apply(cmd_lsvdiskfcmappings(Sim, keys, vdisk),
              Cmd("lsvdiskfcmappings", vdisk, FALSE, ""))

\* _state_transition('flush_failed', fcmap) on a stored mapping: the array
\* failing to flush while the mapping prepares.  No command issues it.
FlushFailed(id) ==
    /\ id \in DOMAIN fcmappings_list
    /\ Apply(fcmap_event(Sim, id, "flush_failed"),
             Cmd("flush_failed", id, FALSE, StatusOf(id)))

ErrorInjection(cmd, error) ==
    /\ next_cmd_error[cmd] # error
    /\ Apply([sim |-> error_injection(Sim, cmd, error), out |-> out,
              err |-> err, exc |-> exc],
             Cmd("error_injection", <<cmd, error>>, FALSE, ""))

\* the NFS driver after construction: no statistics, no share mounted
NfsNew == [stats |-> <<>>, mounted_shares |-> <<>>]

\* the threads that call set_safe_attr
Threads == {"t1", "t2"}

\* a NaServer after __init__: none of _api_major_version,
\* _api_minor_version, _api_version, _vfiler and _vserver is an attribute
\* of it yet (<<>>); an attribute that is set is <<value>>
NaServerNew ==
    [api_major_version |-> <<>>, api_minor_version |-> <<>>,
     api_version |-> <<>>, vfiler |-> <<>>, vserver |-> <<>>]

\* an object whose attribute is None, the lock free, and no thread in
\* set_safe_attr; and a NaServer
NetappNew ==
    [server |-> NaServerNew,
     attr |-> NoArg, was |-> NoArg, lock |-> NoArg,
     th |-> [t \in Threads |->
                 [pc |-> "idle", instance |-> NoArg, name |-> "",
                  val |-> NoArg, old_val |-> NoArg, ret |-> ""]]]

InjectableCmds == {"lsfcmap", "prestartfcmap", "startfcmap", "rmfcmap"}
CopyRates == {"0", "50"}

Init ==
    /\ volumes_list = <<>>
    /\ hosts_list = <<>>
    /\ mappings_list = <<>>
    /\ fcmappings_list = <<>>
    /\ other_pools = [p \in {"openstack2", "openstack3"} |-> <<>>]
    /\ next_cmd_error = [c \in InjectableCmds |-> ""]
    /\ out = <<>>
    /\ err = ""
    /\ exc = ""
    /\ last = Cmd("init", "", FALSE, "")
    /\ nfs = NfsNew
    /\ netapp = NetappNew

(***************************************************************************)
(* Spec: the FlashCopy mapping commands on volumes of one size, no fault   *)
(* injected.                                                               *)
(***************************************************************************)
\* the -source and -target arguments of mkfcmap in Spec
FcPairs == {<<"vol1", "vol2">>, <<"vol1", "vol1">>}

Next ==
    \/ \E n \in VolNames : Mkvdisk(n, 1, "gb", "on")
    \/ \E p \in FcPairs, c \in CopyRates, a \in BOOLEAN :
           Mkfcmap(p[1], p[2], c, a)
    \/ \E id \in FcIds : Prestartfcmap(id)
    \/ \E id \in FcIds : Startfcmap(id)
    \/ \E id \in FcIds : Stopfcmap(id)
    \/ \E id \in FcIds, f \in BOOLEAN : Rmfcmap(id, f)
    \/ \E id \in FcIds, c \in CopyRates \cup {NoArg}, a \in BOOLEAN :
           Chfcmap(id, c, a)
    \/ \E id \in FcIds : LsfcmapId(id)
    \/ \E n \in VolNames : LsfcmapVol("source", n)
    \/ \E id \in FcIds : FlushFailed(id)

Spec == Init /\ [][Next]_vars

(***************************************************************************)
(* SpecVol: the volume commands, with every unit.                          *)
(***************************************************************************)
\* the -unit arguments: the units of unit_array, and gb as the driver
\* spells it
UnitInputs == {"B", "KB", "MB", "GB", "TB", "PB", "gb"}

NextVol ==
    \/ \E n \in VolNames, s \in Sizes, u \in UnitInputs, e \in {"on", NoArg} :
           Mkvdisk(n, s, u, e)
    \/ \E n \in VolNames, f \in BOOLEAN : Rmvdisk(n, f)
    \/ \E n \in VolNames : Expandvdisksize(n, 1)
    \/ \E n \in VolNames : Lsvdisk(n)

SpecVol == Init /\ [][NextVol]_vars

(***************************************************************************)
(* SpecCap: volumes in gigabytes that are made, extended and removed, and  *)
(* mappings between them that are made and removed but not started.        *)
(***************************************************************************)
NextCap ==
    \/ \E n \in VolNames, s \in Sizes : Mkvdisk(n, s, "gb", "on")
    \/ \E n \in VolNames, f \in BOOLEAN : Rmvdisk(n, f)
    \/ \E n \in VolNames : Expandvdisksize(n, 1)
    \/ \E n \in VolNames : Lsvdisk(n)
    \/ \E s, t \in VolNames : Mkfcmap(s, t, "50", FALSE)
    \/ \E id \in FcIds : Rmfcmap(id, TRUE)

SpecCap == Init /\ [][NextCap]_vars

(***************************************************************************)
(* Actions of the host and host mapping commands.                          *)
(***************************************************************************)
HostNames == {"hostA", "hostB"}
Ports == {"iqn.a", "iqn.b"}
Luns == {"0", "1"}

\* the number of ports of a stored host
port_count(name) ==
    Len(hosts_list[name].iscsi_names) + Len(hosts_list[name].wwpns)

Mkhost(name, key, val) ==
    /\ Cardinality(DOMAIN hosts_list) < MaxHosts
    /\ Apply(cmd_mkhost(Sim, name, key, val),
             Cmd("mkhost", <<name, key, val>>, FALSE, ""))

Addhostport(obj, key, val) ==
    /\ obj \in DOMAIN hosts_list => port_count(obj) < MaxPorts
    /\ Apply(cmd_addhostport(Sim, obj, key, val),
             Cmd("addhostport", <<obj, key, val>>, FALSE, ""))

Chhost(obj, chapsecret) ==
    Apply(cmd_chhost(Sim, obj, chapsecret), Cmd("chhost", obj, FALSE, ""))

Rmhost(obj) ==
    Apply(cmd_rmhost(Sim, obj), Cmd("rmhost", obj, FALSE, ""))

Lshost(obj) ==
    \E keys \in Orders(DOMAIN hosts_list) :
        Apply(cmd_lshost(Sim, keys, obj, NoArg),
              Cmd("lshost", obj, FALSE, ""))

Mkvdiskhostmap(host, scsi, obj, force) ==
    /\ Cardinality(DOMAIN mappings_list) < MaxMaps
    /\ Apply(cmd_mkvdiskhostmap(Sim, host, scsi, obj, force),
             Cmd("mkvdiskhostmap", <<host, scsi, obj>>, force, ""))

Rmvdiskhostmap(host, obj) ==
    \E keys \in Orders(DOMAIN mappings_list) :
        Apply(cmd_rmvdiskhostmap(Sim, keys, host, obj),
              Cmd("rmvdiskhostmap", <<host, obj>>, FALSE, ""))

Lshostvdiskmap(obj) ==
    \E keys \in Orders(DOMAIN mappings_list) :
        Apply(cmd_lshostvdiskmap(Sim, keys, obj),
              Cmd("lshostvdiskmap", obj, FALSE, ""))

Lsvdiskhostmap(obj) ==
    \E keys \in Orders(DOMAIN mappings_list) :
        Apply(cmd_lsvdiskhostmap(Sim, keys, obj),
              Cmd("lsvdiskhostmap", obj, FALSE, ""))

(***************************************************************************)
(* SpecPort: hosts that are made, given ports and removed.                 *)
(***************************************************************************)
PortKeys == {"iscsiname", "hbawwpn"}

NextPort ==
    \/ \E n \in HostNames \cup {NoArg}, k \in PortKeys \cup {NoArg},
          v \in Ports : Mkhost(n, k, v)
    \/ \E n \in HostNames, k \in PortKeys \cup {NoArg}, v \in Ports :
           Addhostport(n, k, v)
    \/ \E n \in HostNames : Chhost(n, "secret")
    \/ \E n \in HostNames : Rmhost(n)
    \/ \E n \in HostNames \cup {NoArg} : Lshost(n)

SpecPort == Init /\ [][NextPort]_vars

(***************************************************************************)
(* SpecMap: volumes and hosts that are made and removed, and the mappings  *)
(* of volumes to hosts.                                                    *)
(***************************************************************************)
\* the iSCSI name each host is made with in SpecMap
InitiatorOf(name) == IF name = "hostA" THEN "iqn.a" ELSE "iqn.b"

NextMap ==
    \/ \E n \in VolNames : Mkvdisk(n, 1, "gb", "on")
    \/ \E n \in VolNames, f \in BOOLEAN : Rmvdisk(n, f)
    \/ \E n \in HostNames : Mkhost(n, "iscsiname", InitiatorOf(n))
    \/ \E n \in HostNames : Rmhost(n)
    \/ \E h \in HostNames, l \in Luns, v \in VolNames, f \in BOOLEAN :
           Mkvdiskhostmap(h, l, v, f)
    \/ \E h \in HostNames, v \in VolNames : Rmvdiskhostmap(h, v)
    \/ \E h \in HostNames : Lshostvdiskmap(h)
    \/ \E v \in VolNames : Lsvdiskhostmap(v)

SpecMap == Init /\ [][NextMap]_vars

(***************************************************************************)
(* SpecUse: volumes that are made and removed, with and without -force,    *)
(* their mappings to one host, and a FlashCopy mapping that is made and    *)
(* removed but not started.                                                *)
(***************************************************************************)
NextUse ==
    \/ \E n \in VolNames : Mkvdisk(n, 1, "gb", "on")
    \/ \E n \in VolNames, f \in BOOLEAN : Rmvdisk(n, f)
    \/ Mkhost("hostA", "iscsiname", "iqn.a")
    \/ Rmhost("hostA")
    \/ \E l \in Luns, v \in VolNames : Mkvdiskhostmap("hostA", l, v, FALSE)
    \/ \E v \in VolNames : Rmvdiskhostmap("hostA", v)
    \/ Mkfcmap("vol1", "vol2", "50", FALSE)
    \/ \E id \in FcIds : Rmfcmap(id, TRUE)

SpecUse == Init /\ [][NextUse]_vars

(***************************************************************************)
(* SpecArr: the commands that change the array, each with few arguments:   *)
(* two volumes, the copies of vol1, the migration of vol2, one host and    *)
(* its mapping of vol1, and the FlashCopy mapping of vol1 to vol2.         *)
(***************************************************************************)
Addvdiskcopy(obj, mdiskgrp, easytier) ==
    /\ obj \in DOMAIN volumes_list =>
           Cardinality(DOMAIN volumes_list[obj].copies) < MaxCopies
    /\ Apply(cmd_addvdiskcopy(Sim, obj, mdiskgrp, easytier),
             Cmd("addvdiskcopy", obj, FALSE, ""))

Lsvdiskcopy(obj, copy) ==
    \E keys \in (IF obj \in DOMAIN volumes_list
                 THEN Orders(DOMAIN volumes_list[obj].copies)
                 ELSE {<<>>}) :
        Apply(cmd_lsvdiskcopy(Sim, keys, obj, copy),
              Cmd("lsvdiskcopy", obj, FALSE, ""))

Rmvdiskcopy(obj, copy) ==
    Apply(cmd_rmvdiskcopy(Sim, obj, copy), Cmd("rmvdiskcopy", obj, FALSE, ""))

Migratevdisk(mdiskgrp, vdisk) ==
    Apply(cmd_migratevdisk(Sim, mdiskgrp, vdisk),
          Cmd("migratevdisk", <<mdiskgrp, vdisk>>, FALSE, ""))

\* the -size arguments of expandvdisksize in SpecArr
ExpandSizes == {1, 2}

NextArr ==
    \/ \E n \in VolNames : Mkvdisk(n, 1, "gb", "on")
    \/ \E n \in VolNames : Rmvdisk(n, TRUE)
    \/ \E s \in ExpandSizes : Expandvdisksize("vol1", s)
    \/ Addvdiskcopy("vol1", "openstack2", "on")
    \/ \E c \in {"1", NoArg} : Lsvdiskcopy("vol1", c)
    \/ Rmvdiskcopy("vol1", "1")
    \/ \E p \in {volpool_name, "openstack2"} : Migratevdisk(p, "vol2")
    \/ Mkhost("hostA", "iscsiname", "iqn.a")
    \/ Rmhost("hostA")
    \/ Mkvdiskhostmap("hostA", "0", "vol1", FALSE)
    \/ Rmvdiskhostmap("hostA", "vol1")
    \/ Mkfcmap("vol1", "vol2", "50", TRUE)
    \/ \E id \in FcIds : Prestartfcmap(id)
    \/ \E id \in FcIds : Startfcmap(id)
    \/ \E id \in FcIds : Rmfcmap(id, TRUE)

SpecArr == Init /\ [][NextArr]_vars

(***************************************************************************)
(* SpecCopy: volumes that are made and removed, and their copies: a copy   *)
(* is added in another pool, the copies are listed, and a copy is removed. *)
(***************************************************************************)
\* the -copy arguments of lsvdiskcopy and rmvdiskcopy in SpecCopy
CopyArgs == {"0", "1"}

NextCopy ==
    \/ \E n \in VolNames : Mkvdisk(n, 1, "gb", "on")
    \/ \E n \in VolNames : Rmvdisk(n, FALSE)
    \/ \E n \in VolNames, p \in DOMAIN other_pools :
           Addvdiskcopy(n, p, "on")
    \/ \E n \in VolNames, c \in CopyArgs \cup {NoArg} : Lsvdiskcopy(n, c)
    \/ \E n \in VolNames, c \in CopyArgs : Rmvdiskcopy(n, c)

SpecCopy == Init /\ [][NextCopy]_vars

(***************************************************************************)
(* SpecPool: volumes that are made, removed and migrated between the       *)
(* simulator's own pool and its two other pools.                           *)
(***************************************************************************)
\* the names of the simulator's pools
PoolNames == {volpool_name} \cup DOMAIN other_pools

NextPool ==
    \/ \E n \in VolNames : Mkvdisk(n, 1, "gb", "on")
    \/ \E n \in VolNames : Rmvdisk(n, FALSE)
    \/ \E p \in PoolNames \cup {"nopool"}, n \in VolNames :
           Migratevdisk(p, n)

SpecPool == Init /\ [][NextPool]_vars

(***************************************************************************)
(* Driver operations.  The driver module itself                            *)
(* (cinder/volume/drivers/storwize_svc.py) is not among the sources, only  *)
(* its tests are; the operations below follow the specification's design   *)
(* of the Driver Core (sections 4.3 and 4.4) and run the simulator's       *)
(* commands above.  A driver operation's result is the store it leaves,    *)
(* the exception it raises ("" for none) and the step it failed at.        *)
(***************************************************************************)
MaxPolls == 2         \* a wait polls the mapping at most 0..MaxPolls times
CleanupRounds == 5    \* passes over a volume's mappings before giving up

Polls == 0..MaxPolls
DrvVols == VolNames \cup {"vol3"}

Done(S) == [sim |-> S, exc |-> "", step |-> ""]
Fail(S, x, step) == [sim |-> S, exc |-> x, step |-> step]

\* the order the driver's commands find the mappings in
KeyOrder(S) == SortedIds(S.fcmappings_list, 0)

\* lsfcmap -filtervalue id=<fc_map_id>
get_flashcopy_mapping_attributes(S, fc_map_id) ==
    cmd_lsfcmap(S, KeyOrder(S), "id", fc_map_id)

\* The steps of a copy.  Each takes the operation so far, r, and does
\* nothing once the operation has failed.

\* mkfcmap with -autodelete, and copy rate 0 for a snapshot; the id it
\* prints is kept for the steps that follow
make_fc_map(r, source, target, full_copy) ==
    IF r.exc # "" THEN r
    ELSE LET mk == cmd_mkfcmap(r.sim, source, target,
                               IF full_copy THEN "50" ELSE "0", TRUE)
         IN  IF mk.err # ""
             THEN Fail(mk.sim, "VolumeBackendAPIException", "mkfcmap")
             ELSE [sim |-> mk.sim, exc |-> "", step |-> "",
                   fc_map_id |-> mk.out[1].id]

\* prestartfcmap
call_prepare_fc_map(r) ==
    IF r.exc # "" THEN r
    ELSE LET pre == cmd_gen_prestartfcmap(r.sim, r.fc_map_id)
         IN  IF pre.err # ""
             THEN Fail(pre.sim, "ProcessExecutionError", "prepare")
             ELSE [r EXCEPT !.sim = pre.sim]

\* poll until the mapping is prepared; out of polls is the timeout
RECURSIVE wait_for_prepared(_, _)
wait_for_prepared(r, polls) ==
    IF r.exc # "" THEN r
    ELSE IF polls = 0 THEN Fail(r.sim, "InvalidSnapshot", "timeout")
    ELSE LET a == get_flashcopy_mapping_attributes(r.sim, r.fc_map_id)
         IN  IF a.exc # "" THEN Fail(a.sim, a.exc, "wait")
             ELSE IF a.out # <<>> /\ a.out[1].status = "prepared"
             THEN [r EXCEPT !.sim = a.sim]
             ELSE wait_for_prepared([r EXCEPT !.sim = a.sim], polls - 1)

\* startfcmap
start_fc_map(r) ==
    IF r.exc # "" THEN r
    ELSE LET st == cmd_gen_startfcmap(r.sim, r.fc_map_id)
         IN  IF st.err # ""
             THEN Fail(st.sim, "ProcessExecutionError", "start")
             ELSE [r EXCEPT !.sim = st.sim]

\* for a full copy, poll until the copy is complete, when lsfcmap has
\* removed the autodelete mapping and lists nothing
RECURSIVE wait_for_copy(_, _, _)
wait_for_copy(r, full_copy, polls) ==
    IF r.exc # "" \/ ~full_copy THEN r
    ELSE IF polls = 0 THEN Fail(r.sim, "InvalidSnapshot", "timeout")
    ELSE LET a == get_flashcopy_mapping_attributes(r.sim, r.fc_map_id)
         IN  IF a.exc # "" THEN Fail(a.sim, a.exc, "wait")
             ELSE IF a.out = <<>> THEN [r EXCEPT !.sim = a.sim]
             ELSE wait_for_copy([r EXCEPT !.sim = a.sim], full_copy,
                                polls - 1)

\* create the mapping, prepare it, wait for prepared, start it and, for
\* a full copy, wait for the copy
run_flashcopy(r, source, target, full_copy, polls) ==
    wait_for_copy(
        start_fc_map(
            wait_for_prepared(
                call_prepare_fc_map(
                    make_fc_map(r, source, target, full_copy)),
                polls)),
        full_copy, polls)

\* what to do with a listed mapping: stop one that is copying or
\* prepared, leave one that is stopping or preparing to the next pass,
\* remove any other with rmfcmap -force
ensure_one(a, map_id) ==
    IF a.exc # "" \/ a.out = <<>> THEN a.sim
    ELSE IF a.out[1].status \in {"copying", "prepared"}
    THEN cmd_stopfcmap(a.sim, map_id).sim
    ELSE IF a.out[1].status \in {"stopping", "preparing"}
    THEN a.sim
    ELSE cmd_rmfcmap(a.sim, map_id, TRUE).sim

\* one pass over the mappings lsvdiskfcmappings listed
RECURSIVE ensure_pass(_, _)
ensure_pass(S, ids) ==
    IF ids = <<>> THEN S
    ELSE ensure_pass(
             ensure_one(get_flashcopy_mapping_attributes(S, Head(ids).id),
                        Head(ids).id),
             Tail(ids))

\* passes until no mapping names the volume, at most `rounds` of them
RECURSIVE ensure_vdisk_no_fc_mappings(_, _, _)
ensure_vdisk_no_fc_mappings(S, name, rounds) ==
    LET ids == cmd_lsvdiskfcmappings(S, KeyOrder(S), name).out
    IN  IF ids = <<>> \/ rounds = 0 THEN S
        ELSE ensure_vdisk_no_fc_mappings(ensure_pass(S, ids), name,
                                         rounds - 1)

\* rmvdisk, whose refusal is the InUse error
remove_vdisk(S, name, force) ==
    LET rm == cmd_rmvdisk(S, name, force)
    IN  IF rm.err # "" THEN Fail(rm.sim, "VolumeIsBusy", "rmvdisk")
        ELSE Done(rm.sim)

\* delete a volume without asking whether it is on the array
delete_vdisk_unchecked(S, name, force) ==
    remove_vdisk(IF force
                 THEN ensure_vdisk_no_fc_mappings(S, name, CleanupRounds)
                 ELSE S,
                 name, force)

\* delete a volume: a no-op when it is not on the array; with force its
\* mappings are removed first
delete_vdisk(S, name, force) ==
    IF cmd_lsvdisk(S, name).err # "" THEN Done(S)
    ELSE remove_vdisk(IF force
                      THEN ensure_vdisk_no_fc_mappings(S, name,
                                                       CleanupRounds)
                      ELSE S,
                      name, force)

\* mkvdisk of the source's capacity in bytes
create_vdisk(S, name, ls) ==
    LET mk == cmd_mkvdisk(S, name, ls.out[1].capacity, "b", "on")
    IN  IF mk.err # "" \/ mk.exc # ""
        THEN Fail(mk.sim, "ProcessExecutionError", "mkvdisk")
        ELSE Done(mk.sim)

\* after a failed copy delete the target, whatever that deletion's own
\* outcome, and raise the copy's error
delete_on_failure(r, tgt) ==
    IF r.exc = "" \/ r.step = "mkvdisk" THEN r
    ELSE [r EXCEPT !.sim = delete_vdisk(r.sim, tgt, TRUE).sim]

\* create the target with the source's capacity and copy onto it
create_copy(S, src, tgt, full_copy, not_found, polls) ==
    IF cmd_lsvdisk(S, src).err # "" THEN Fail(S, not_found, "source")
    ELSE delete_on_failure(
             run_flashcopy(create_vdisk(S, tgt, cmd_lsvdisk(S, src)),
                           src, tgt, full_copy, polls),
             tgt)

create_snapshot(S, snapshot, volume, polls) ==
    create_copy(S, volume, snapshot, FALSE, "VolumeNotFound", polls)

\* create_volume_from_snapshot that copies whatever size was asked for
create_volume_from_snapshot_unchecked(S, volume, size, snapshot, polls) ==
    create_copy(S, snapshot, volume, TRUE, "SnapshotNotFound", polls)

\* the size asked for, in GiB, must be the snapshot's
create_volume_from_snapshot(S, volume, size, snapshot, polls) ==
    IF cmd_lsvdisk(S, snapshot).err = ""
       /\ TimesGiB(size) # cmd_lsvdisk(S, snapshot).out[1].capacity
    THEN Fail(S, "VolumeBackendAPIException", "size")
    ELSE create_copy(S, snapshot, volume, TRUE, "SnapshotNotFound", polls)

create_cloned_volume(S, tgt_volume, size, src_volume, polls) ==
    IF cmd_lsvdisk(S, src_volume).err = ""
       /\ TimesGiB(size) # cmd_lsvdisk(S, src_volume).out[1].capacity
    THEN Fail(S, "VolumeBackendAPIException", "size")
    ELSE create_copy(S, src_volume, tgt_volume, TRUE, "VolumeNotFound",
                     polls)

\* A driver operation as an action: last holds the operation, its target,
\* source and size, and the step it failed at ("" for none).
Drive(r, op, args) ==
    Apply([sim |-> r.sim, out |-> <<>>, err |-> "", exc |-> r.exc],
          Cmd(op, args, FALSE, r.step))

CreateSnapshot(snapshot, volume, polls) ==
    Drive(create_snapshot(Sim, snapshot, volume, polls),
          "create_snapshot", <<snapshot, volume, 0>>)

CreateVolumeFromSnapshot(volume, size, snapshot, polls) ==
    Drive(create_volume_from_snapshot(Sim, volume, size, snapshot, polls),
          "create_volume_from_snapshot", <<volume, snapshot, size>>)

CreateClonedVolume(tgt_volume, size, src_volume, polls) ==
    Drive(create_cloned_volume(Sim, tgt_volume, size, src_volume, polls),
          "create_cloned_volume", <<tgt_volume, src_volume, size>>)

DeleteVdisk(name, force) ==
    Drive(delete_vdisk(Sim, name, force), "delete_vdisk",
          <<name, "", 0>>)

(***************************************************************************)
(* SpecDrv: volumes of one gigabyte, the copy operations of the driver on  *)
(* them, asked for one gigabyte or for two, and the simulator's fault      *)
(* injection.                                                              *)
(***************************************************************************)
\* the (target, source) pairs of the copy operations in SpecDrv
DrvPairs == {<<"vol2", "vol1">>, <<"vol3", "vol1">>}

NextDrv ==
    \/ \E n \in DrvVols : Mkvdisk(n, 1, "gb", "on")
    \/ \E c \in DrvPairs, p \in Polls : CreateSnapshot(c[1], c[2], p)
    \/ \E c \in DrvPairs, s \in {1, 2}, p \in Polls :
           CreateVolumeFromSnapshot(c[1], s, c[2], p)
    \/ \E c \in DrvPairs, s \in {1, 2}, p \in Polls :
           CreateClonedVolume(c[1], s, c[2], p)
    \/ \E n \in DrvVols, f \in BOOLEAN : DeleteVdisk(n, f)
    \/ \E i \in Injections : ErrorInjection(i[1], i[2])

SpecDrv == Init /\ [][NextDrv]_vars

(***************************************************************************)
(* Driver operations on volumes and connections.  Like the copy            *)
(* operations above they follow the specification's design of the Driver   *)
(* Core (section 4.3) and the scenarios of its tests, and run the          *)
(* simulator's commands.                                                   *)
(***************************************************************************)
\* delete_volume: delete without the force flag
delete_volume(S, name) == delete_vdisk(S, name, FALSE)

\* delete_snapshot: the snapshot's mapping goes with it
delete_snapshot(S, name) == delete_vdisk(S, name, TRUE)

\* extend_volume: refused while a FlashCopy mapping names the volume;
\* otherwise expandvdisksize by the difference between the new size and
\* the size the volume's record has, in GiB
extend_volume(S, volume, new_size) ==
    IF cmd_lsvdiskfcmappings(S, KeyOrder(S), volume.name).out # <<>>
    THEN Fail(S, "VolumeBackendAPIException", "mapped")
    ELSE IF cmd_expandvdisksize(S, volume.name, new_size - volume.size).err
                # ""
    THEN Fail(S, "ProcessExecutionError", "expandvdisksize")
    ELSE Done(cmd_expandvdisksize(S, volume.name,
                                  new_size - volume.size).sim)

\* the order the driver's commands find the host mappings in
MapOrder(S) ==
    [i \in 1..Len(SortedIds(S.mappings_list, 0)) |->
        id_str(SortedIds(S.mappings_list, 0)[i])]

\* the hosts lshost <name> shows the connector's initiator for
hosts_of_connector(S, connector) ==
    {h \in DOMAIN S.hosts_list :
        has_port(cmd_lshost(S, <<>>, h, NoArg).out[1].iscsi_name,
                 connector.initiator)}

\* the first of the hosts, NoArg when there is none
first_host(S, hosts) ==
    IF hosts = {} THEN NoArg
    ELSE CHOOSE h \in hosts :
             \A g \in hosts : S.hosts_list[h].id <= S.hosts_list[g].id

\* the host of a connector: the first host that has its initiator
get_host_from_connector(S, connector) ==
    first_host(S, hosts_of_connector(S, connector))

\* the LUNs in the rows of lshostvdiskmap
used_luns(rows) == {rows[i].SCSI_id : i \in 1..Len(rows)}

\* the lowest LUN that is not among the used ones
next_lun(used) ==
    id_str(CHOOSE i \in 0..4 :
               /\ id_str(i) \notin used
               /\ \A j \in 0..(i - 1) : id_str(j) \in used)

\* the result of mkvdiskhostmap -force
map_forced(S, mk) ==
    IF mk.err # "" THEN Fail(S, "ProcessExecutionError", "mkvdiskhostmap")
    ELSE Done(mk.sim)

\* the result of mkvdiskhostmap: a LUN that another host uses is asked
\* for again with -force
map_result(S, mk, host, lun, vol) ==
    IF mk.err = "" THEN Done(mk.sim)
    ELSE IF mk.err # "CMMVC6071E"
    THEN Fail(mk.sim, "ProcessExecutionError", "mkvdiskhostmap")
    ELSE map_forced(S, cmd_mkvdiskhostmap(S, host, lun, vol, TRUE))

\* map the volume to the host at the LUN
map_at(S, vol, host, lun) ==
    map_result(S, cmd_mkvdiskhostmap(S, host, lun, vol, FALSE),
               host, lun, vol)

\* with the host's mappings: a volume that is mapped to the host already
\* stays as it is, another one is mapped at the lowest unused LUN
map_unless_mapped(S, vol, host, ls) ==
    IF ls.exc # ""
    THEN Fail(S, "VolumeBackendAPIException", "lshostvdiskmap")
    ELSE IF \E i \in 1..Len(ls.out) : ls.out[i].vdisk_name = vol
    THEN Done(S)
    ELSE map_at(S, vol, host, next_lun(used_luns(ls.out)))

\* map the volume to the host unless it is mapped to it already
map_vol_to_host(S, vol, host) ==
    map_unless_mapped(S, vol, host,
                      cmd_lshostvdiskmap(S, MapOrder(S), host))

\* after mkhost for a connector that had no host
map_to_created(mk, vol, host) ==
    IF mk.err # "" THEN Fail(mk.sim, "VolumeBackendAPIException", "mkhost")
    ELSE map_vol_to_host(mk.sim, vol, host)

\* with the connector's host: it is made when no host has the
\* connector's initiator
connect_host(S, volume, connector, host) ==
    IF host # NoArg THEN map_vol_to_host(S, volume, host)
    ELSE map_to_created(cmd_mkhost(S, connector.host, "iscsiname",
                                   connector.initiator),
                        volume, connector.host)

\* initialize_connection: use the connector's host, making it when there
\* is none, and map the volume to it
initialize_connection(S, volume, connector) ==
    connect_host(S, volume, connector,
                 get_host_from_connector(S, connector))

\* after rmvdiskhostmap: a host with no mapping left is removed
delete_unmapped_host(rm, host) ==
    IF rm.err # ""
    THEN Fail(rm.sim, "ProcessExecutionError", "rmvdiskhostmap")
    ELSE IF cmd_lshostvdiskmap(rm.sim, MapOrder(rm.sim), host).out = <<>>
    THEN Done(cmd_rmhost(rm.sim, host).sim)
    ELSE Done(rm.sim)

\* remove the volume's mapping to the host
unmap_host(S, volume, host) ==
    delete_unmapped_host(cmd_rmvdiskhostmap(S, MapOrder(S), host, volume),
                         host)

\* the hosts in the rows of lsvdiskhostmap
hosts_mapped(rows) == {rows[i].host_name : i \in 1..Len(rows)}

\* with the hosts the volume is mapped to: nothing is done for a volume
\* that has no mapping, for one that is not mapped to the host, and, when
\* no host is given, for one that is mapped to several
unmap_among(S, volume, host, mapped) ==
    IF mapped = {} THEN Done(S)
    ELSE IF host = NoArg /\ Cardinality(mapped) > 1 THEN Done(S)
    ELSE IF host # NoArg /\ host \notin mapped THEN Done(S)
    ELSE unmap_host(S, volume,
                    IF host # NoArg THEN host
                    ELSE CHOOSE h \in mapped : TRUE)

\* unmap the volume from the host
unmap_vol_from_host(S, volume, host) ==
    unmap_among(S, volume, host,
                hosts_mapped(cmd_lsvdiskhostmap(S, MapOrder(S),
                                                volume).out))

\* with the connector's host: a connector that names a host must have a
\* host on the array; a connector that names none leaves the host to the
\* volume's mapping
disconnect_host(S, volume, connector, host) ==
    IF connector.host # NoArg /\ host = NoArg
    THEN Fail(S, "VolumeBackendAPIException", "host")
    ELSE unmap_vol_from_host(S, volume,
                             IF connector.host # NoArg THEN host
                             ELSE NoArg)

\* terminate_connection
terminate_connection(S, volume, connector) ==
    disconnect_host(S, volume, connector,
                    get_host_from_connector(S, connector))

(***************************************************************************)
(* SpecExt: volumes of one gigabyte, their snapshots, and the deletion     *)
(* and extension of volumes.                                               *)
(***************************************************************************)
MaxExtGiB == 3        \* extend_volume asks for at most this many GiB

\* a stored volume's size in GiB, as the volume's record has it
size_of(name) == volumes_list[name].capacity[4]

\* for a driver operation on a volume, whether the volume was stored
Stored(name) == IF name \in DOMAIN volumes_list THEN "stored" ELSE "absent"

DeleteVolume(name) ==
    Apply([sim |-> delete_volume(Sim, name).sim, out |-> <<>>, err |-> "",
           exc |-> delete_volume(Sim, name).exc],
          Cmd("delete_volume", <<name, "", 0>>, FALSE, Stored(name)))

DeleteSnapshot(name) ==
    Drive(delete_snapshot(Sim, name), "delete_snapshot", <<name, "", 0>>)

ExtendVolume(name, new_size) ==
    /\ name \in DOMAIN volumes_list
    /\ size_of(name) < new_size
    /\ Drive(extend_volume(Sim, [name |-> name, size |-> size_of(name)],
                           new_size),
             "extend_volume", <<name, "", new_size>>)

NextExt ==
    \/ \E n \in DrvVols : Mkvdisk(n, 1, "gb", "on")
    \/ \E c \in DrvPairs, p \in Polls : CreateSnapshot(c[1], c[2], p)
    \/ \E n \in DrvVols : DeleteVolume(n)
    \/ \E n \in DrvVols : DeleteSnapshot(n)
    \/ \E n \in DrvVols, s \in 2..MaxExtGiB : ExtendVolume(n, s)

SpecExt == Init /\ [][NextExt]_vars

(***************************************************************************)
(* SpecConn: volumes, the connections of two connectors that name a host   *)
(* and of one that names none, and rmhost.                                 *)
(***************************************************************************)
Connectors ==
    [A |-> [host |-> "hostA", initiator |-> "iqn.a"],
     B |-> [host |-> "hostB", initiator |-> "iqn.b"],
     N |-> [host |-> NoArg, initiator |-> "iqn.fake"]]

\* the volume is mapped to the host
Mapped(host, volume) ==
    \E k \in DOMAIN mappings_list :
        mappings_list[k].host = host /\ mappings_list[k].vol = volume

\* before a connection operation: whether the connector has a host, and
\* whether the volume is mapped to it
ConnectedTo(host, volume) ==
    IF host = NoArg THEN "no host"
    ELSE IF Mapped(host, volume) THEN "mapped"
    ELSE "not mapped"

Connected(volume, c) ==
    ConnectedTo(get_host_from_connector(Sim, Connectors[c]), volume)

\* last holds the volume, the connector and the host the connector has
\* once the operation is over
Connect(r, op, volume, c, pre) ==
    Apply([sim |-> r.sim, out |-> <<>>, err |-> "", exc |-> r.exc],
          Cmd(op, <<volume, c, get_host_from_connector(r.sim, Connectors[c])>>,
              FALSE, pre))

InitializeConnection(volume, c) ==
    /\ volume \in DOMAIN volumes_list
    /\ Connect(initialize_connection(Sim, volume, Connectors[c]),
               "initialize_connection", volume, c, Connected(volume, c))

TerminateConnection(volume, c) ==
    /\ volume \in DOMAIN volumes_list
    /\ Connect(terminate_connection(Sim, volume, Connectors[c]),
               "terminate_connection", volume, c, Connected(volume, c))

NextConn ==
    \/ \E n \in VolNames : Mkvdisk(n, 1, "gb", "on")
    \/ \E v \in VolNames, c \in {"A", "B"} : InitializeConnection(v, c)
    \/ \E v \in VolNames, c \in {"A", "B", "N"} : TerminateConnection(v, c)
    \/ \E h \in HostNames : Rmhost(h)

SpecConn == Init /\ [][NextConn]_vars

(***************************************************************************)
(* The FlashCopy mapping state machine: claims C1 to C6, under Spec.       *)
(***************************************************************************)
\* the event a command applies to the mapping it names, "" for none
EventOf(l) ==
    CASE l.cmd = "prestartfcmap" -> "prepare"
      [] l.cmd = "startfcmap"    -> "start"
      [] l.cmd = "stopfcmap"     -> "stop"
      [] l.cmd = "rmfcmap"       -> IF l.force THEN "delete_force" ELSE "delete"
      [] l.cmd = "flush_failed"  -> "flush_failed"
      [] l.cmd = "lsfcmap"       -> "wait"
      [] l.cmd = "lsfcmap_vol"   -> "wait"
      [] OTHER                   -> ""

\* whether the command l reaches the stored mapping id of the current state
Targets(l, id) ==
    /\ id \in DOMAIN fcmappings_list
    /\ \/ /\ l.cmd \in {"prestartfcmap", "startfcmap", "stopfcmap", "rmfcmap",
                        "flush_failed", "lsfcmap"}
          /\ l.obj = id
          /\ l.cmd \in DOMAIN next_cmd_error => next_cmd_error[l.cmd] # "bad_id"
       \/ /\ l.cmd = "lsfcmap_vol"
          /\ fcmappings_list[id][l.obj[1]] = l.obj[2]

\* the mapping after n consecutive waits
RECURSIVE Waits(_, _)
Waits(v, n) == IF n = 0 THEN v ELSE Waits(state_transition("wait", v).fcmap, n - 1)

WaitBound == 4

\* C1 as claimed: from every status, WaitBound waits in a row reach
\* idle_or_copied or stopped.
C1_Original ==
    \A k \in DOMAIN fcmappings_list :
        Waits(fcmappings_list[k], WaitBound).status
            \in {"idle_or_copied", "stopped"}

\* C1, amended: repeated wait settles after at most two waits (no cycle);
\* it settles in idle_or_copied or stopped from idle_or_copied, stopped,
\* stopping and from copying with a nonzero copy rate, in prepared from
\* preparing and prepared, and a mapping copying at copy rate 0 stays as
\* it is.
C1_WaitSettles ==
    \A k \in DOMAIN fcmappings_list :
        LET v == fcmappings_list[k]
            w == Waits(v, 2)
        IN  /\ state_transition("wait", w) = [fcmap |-> w, err |-> ""]
            /\ (v.status \in {"idle_or_copied", "stopped"}) => w = v
            /\ (v.status = "stopping") => w.status = "stopped"
            /\ (v.status = "copying" /\ v.copyrate # "0")
                   => w.status = "idle_or_copied" /\ w.progress = "100"
            /\ (v.status \in {"preparing", "prepared"})
                   => w.status = "prepared"
            /\ (v.status = "copying" /\ v.copyrate = "0") => w = v

\* a copy that lsfcmap's wait has just completed
C1_Witness ==
    /\ last.cmd = "lsfcmap" /\ last.pre = "copying"
    /\ last.obj \in DOMAIN fcmappings_list
    /\ fcmappings_list[last.obj].status = "idle_or_copied"
    /\ fcmappings_list[last.obj].progress = "100"

\* C2 as claimed: every event without a table entry for the mapping's
\* status, wait included, returns CMMVC5903E and changes nothing.
C2_Original ==
    \A k \in DOMAIN fcmappings_list : \A e \in Events :
        ~HasEntry(fcmappings_list[k].status, e)
            => state_transition(e, fcmappings_list[k])
                   = [fcmap |-> fcmappings_list[k], err |-> "CMMVC5903E"]

C2_WaitIgnored ==
    \A k \in DOMAIN fcmappings_list :
        ~HasEntry(fcmappings_list[k].status, "wait")
            => state_transition("wait", fcmappings_list[k])
                   = [fcmap |-> fcmappings_list[k], err |-> ""]

C2_Rejected ==
    \A id \in FcIds :
        ( /\ Targets(last', id)
          /\ EventOf(last') \in Events \ {"wait"}
          /\ ~HasEntry(fcmappings_list[id].status, EventOf(last')) )
        => /\ err' = "CMMVC5903E"
           /\ exc' = ""
           /\ fcmappings_list' = fcmappings_list

\* C2, amended: an event other than wait that has no table entry for the
\* mapping's status returns CMMVC5903E and leaves the mapping store as it
\* was; a wait without a table entry returns success and changes nothing.
C2_InvalidTransition == []C2_WaitIgnored /\ [][C2_Rejected]_vars

\* stopfcmap has just been rejected on a mapping that was never prepared
C2_Witness ==
    /\ last.cmd = "stopfcmap" /\ last.pre = "idle_or_copied"
    /\ err = "CMMVC5903E"
    /\ last.obj \in DOMAIN fcmappings_list
    /\ fcmappings_list[last.obj].status = "idle_or_copied"

\* the status changes C3 lists
C3_Listed ==
    {<<"idle_or_copied", "prepare", "preparing">>,
     <<"preparing", "flush_failed", "stopped">>,
     <<"preparing", "wait", "prepared">>,
     <<"prepared", "start", "copying">>,
     <<"prepared", "stop", "stopped">>,
     <<"copying", "wait", "idle_or_copied">>,
     <<"copying", "stop", "stopping">>,
     <<"stopping", "wait", "stopped">>,
     <<"idle_or_copied", "delete", "end">>,
     <<"idle_or_copied", "delete_force", "end">>,
     <<"stopped", "delete", "end">>,
     <<"stopped", "delete_force", "end">>}

\* Every change of a stored mapping's status in one step, and every removal
\* by rmfcmap, is a triple of `allowed` for the event the step's command
\* applies; a mapping that lsfcmap removes was idle_or_copied or copying.
StatusChangesIn(allowed) ==
    \A id \in DOMAIN fcmappings_list :
        LET from == fcmappings_list[id].status
        IN  /\ (id \in DOMAIN fcmappings_list'
                /\ fcmappings_list'[id].status # from)
               => /\ Targets(last', id)
                  /\ <<from, EventOf(last'), fcmappings_list'[id].status>>
                         \in allowed
            /\ (id \notin DOMAIN fcmappings_list')
               => /\ Targets(last', id)
                  /\ \/ <<from, EventOf(last'), "end">> \in allowed
                     \/ /\ EventOf(last') = "wait"
                        /\ \/ from = "idle_or_copied"
                           \/ <<from, "wait", "idle_or_copied">> \in allowed

\* C3 as claimed
C3_Original == [][StatusChangesIn(C3_Listed)]_vars

\* C3, amended: the listed changes and stopped->preparing (prepare), with
\* stopped->end by delete_force only.
C3_StatusChanges ==
    [][StatusChangesIn((C3_Listed
                           \cup {<<"stopped", "prepare", "preparing">>})
                       \ {<<"stopped", "delete", "end">>})]_vars

\* a stopped mapping has just been prepared again
C3_Witness ==
    /\ last.cmd = "prestartfcmap" /\ last.pre = "stopped" /\ err = ""
    /\ last.obj \in DOMAIN fcmappings_list
    /\ fcmappings_list[last.obj].status = "preparing"

\* rmfcmap on a stored mapping in status idle_or_copied or stopped, with
\* or without -force, returns no error and removes the mapping
RmfcmapSucceeds(forces) ==
    \A id \in FcIds :
        ( /\ Targets(last', id)
          /\ last'.cmd = "rmfcmap"
          /\ fcmappings_list[id].status \in {"idle_or_copied", "stopped"}
          /\ last'.force \in forces[fcmappings_list[id].status] )
        => /\ err' = "" /\ exc' = ""
           /\ fcmappings_list' = Del(fcmappings_list, id)

\* C4 as claimed
C4_Original ==
    [][RmfcmapSucceeds([idle_or_copied |-> BOOLEAN, stopped |-> BOOLEAN])]_vars

C4_StoppedNeedsForce ==
    \A id \in FcIds :
        ( /\ Targets(last', id)
          /\ last'.cmd = "rmfcmap" /\ ~last'.force
          /\ fcmappings_list[id].status = "stopped" )
        => /\ err' = "CMMVC5903E"
           /\ fcmappings_list' = fcmappings_list

\* C4, amended: rmfcmap succeeds and removes the mapping on idle_or_copied
\* with or without -force and on stopped with -force; on stopped without
\* -force it returns CMMVC5903E and the mapping stays, still stopped.
C4_Rmfcmap ==
    [][ /\ RmfcmapSucceeds([idle_or_copied |-> BOOLEAN, stopped |-> {TRUE}])
        /\ C4_StoppedNeedsForce ]_vars

\* a stopped mapping has just been removed by rmfcmap -force
C4_Witness ==
    /\ last.cmd = "rmfcmap" /\ last.force /\ last.pre = "stopped"
    /\ err = ""
    /\ last.obj \notin DOMAIN fcmappings_list

C5_Step ==
    \A id \in FcIds :
        ( /\ Targets(last', id)
          /\ EventOf(last') = "wait"
          /\ fcmappings_list[id].status = "copying" )
        => LET v == fcmappings_list[id]
           IN  IF v.copyrate = "0"
               THEN id \in DOMAIN fcmappings_list'
                    /\ fcmappings_list'[id] = v
               ELSE IF v.progress = "0"
               THEN id \in DOMAIN fcmappings_list'
                    /\ fcmappings_list'[id] = [v EXCEPT !.progress = "50"]
               ELSE id \in DOMAIN fcmappings_list'
                    => fcmappings_list'[id] =
                           [v EXCEPT !.progress = "100",
                                     !.status = "idle_or_copied"]

\* C5: a wait on a copying mapping with a nonzero copy rate moves progress
\* 0 to 50 with the status still copying, and from 50 to 100 together with
\* the status becoming idle_or_copied; with copy rate 0 it changes nothing.
C5_CopyProgress == [][C5_Step]_vars

\* lsfcmap has just advanced a copy to 50 percent
C5_Witness ==
    /\ last.cmd = "lsfcmap" /\ last.pre = "copying"
    /\ last.obj \in DOMAIN fcmappings_list
    /\ fcmappings_list[last.obj].status = "copying"
    /\ fcmappings_list[last.obj].progress = "50"
    /\ fcmappings_list[last.obj].copyrate # "0"

\* the three conditions, on the mapping as it is after lsfcmap's wait
AutoDeletes(v) ==
    LET w == state_transition("wait", v).fcmap
    IN  w.status = "idle_or_copied" /\ w.autodelete /\ w.progress = "100"

Listed(id) == \E i \in 1..Len(out') : out'[i].id = id

C6_Step ==
    \A id \in DOMAIN fcmappings_list :
        /\ (id \notin DOMAIN fcmappings_list' /\ last'.cmd # "rmfcmap")
           => /\ EventOf(last') = "wait" /\ Targets(last', id)
              /\ AutoDeletes(fcmappings_list[id])
        /\ (EventOf(last') = "wait" /\ Targets(last', id) /\ exc' = "")
           => IF AutoDeletes(fcmappings_list[id])
              THEN id \notin DOMAIN fcmappings_list' /\ ~Listed(id)
              ELSE id \in DOMAIN fcmappings_list' /\ Listed(id)

\* C6: a mapping leaves the store without rmfcmap exactly when an lsfcmap
\* whose filter matches it finds it, after its wait, idle_or_copied with
\* autodelete set and progress 100; lsfcmap lists the matching mappings
\* that fail one of the three and never one that meets all three.
C6_AutoDelete == [][C6_Step]_vars

\* lsfcmap has just removed a mapping whose copy it completed
C6_Witness ==
    /\ last.cmd = "lsfcmap" /\ last.pre = "copying" /\ err = "" /\ exc = ""
    /\ last.obj \notin DOMAIN fcmappings_list
    /\ out = <<>>

(***************************************************************************)
(* Failed copies leave nothing behind: claims C7 and C8, under SpecDrv.    *)
(***************************************************************************)
CopyOps == {"create_snapshot", "create_volume_from_snapshot",
            "create_cloned_volume"}

\* no volume of vols and no mapping of fcmaps names `name`
NothingLeft(vols, fcmaps, name) ==
    /\ name \notin DOMAIN vols
    /\ \A k \in DOMAIN fcmaps :
           /\ fcmaps[k].source # name
           /\ fcmaps[k].target # name

\* the copy operation of this step has a source on the array, a target
\* that is not, and the source's size
Copies ==
    /\ last'.cmd \in CopyOps
    /\ last'.obj[2] \in DOMAIN volumes_list
    /\ last'.obj[1] \notin DOMAIN volumes_list
    /\ last'.cmd # "create_snapshot"
           => TimesGiB(last'.obj[3]) = volumes_list[last'.obj[2]].capacity

C7_Step ==
    /\ (last'.cmd \in CopyOps
         /\ last'.pre \in {"prepare", "start", "timeout"})
        => /\ exc' = IF last'.pre = "timeout" THEN "InvalidSnapshot"
                     ELSE "ProcessExecutionError"
           /\ NothingLeft(volumes_list', fcmappings_list', last'.obj[1])
    /\ (Copies /\ next_cmd_error["prestartfcmap"] = "bad_id")
        => last'.pre = "prepare"
    /\ (Copies /\ next_cmd_error["prestartfcmap"] # "bad_id"
         /\ next_cmd_error["startfcmap"] = "bad_id")
        => last'.pre \in {"timeout", "start"}

\* C7: a copy operation that fails at the prepare step, at the start step
\* or by timing out raises that step's error (the command's
\* ProcessExecutionError, or InvalidSnapshot for the timeout) and returns
\* with its target volume off the array and no mapping naming it; an
\* injected prestartfcmap failure fails the prepare step, and an injected
\* startfcmap failure fails the start step unless the wait timed out.
C7_FailedCopyCleansUp == [][C7_Step]_vars

\* create_snapshot has just failed at the start step and cleaned up while
\* the mapping of an earlier snapshot is still there
C7_Witness ==
    /\ last.cmd = "create_snapshot" /\ last.pre = "start"
    /\ exc = "ProcessExecutionError"
    /\ NothingLeft(volumes_list, fcmappings_list, last.obj[1])
    /\ fcmappings_list # <<>>

C8_Step ==
    ( /\ last'.cmd \in CopyOps \ {"create_snapshot"}
      /\ last'.obj[2] \in DOMAIN volumes_list
      /\ last'.obj[1] \notin DOMAIN volumes_list
      /\ TimesGiB(last'.obj[3]) # volumes_list[last'.obj[2]].capacity )
    => /\ exc' = "VolumeBackendAPIException"
       /\ fcmappings_list' = fcmappings_list
       /\ volumes_list' = volumes_list

\* C8: create_volume_from_snapshot and create_cloned_volume asked for a
\* size that is not the source's raise VolumeBackendAPIException and leave
\* the mappings and the volumes as they were: no mapping is made and the
\* target is not on the array.
C8_SizeMismatch == [][C8_Step]_vars

\* create_cloned_volume has just refused a size that is not the source's
C8_Witness ==
    /\ last.cmd = "create_cloned_volume" /\ last.pre = "size"
    /\ exc = "VolumeBackendAPIException"
    /\ last.obj[2] \in DOMAIN volumes_list
    /\ TimesGiB(last.obj[3]) # volumes_list[last.obj[2]].capacity
    /\ NothingLeft(volumes_list, fcmappings_list, last.obj[1])

(***************************************************************************)
(* Volume capacities: claim C9 under SpecCap and claim C10 under SpecVol.  *)
(***************************************************************************)
\* C9 as claimed: the source and the target of every stored mapping whose
\* volumes are both on the array have the same capacity.
C9_EqualCapacity ==
    \A k \in DOMAIN fcmappings_list :
        LET v == fcmappings_list[k]
        IN  (v.source \in DOMAIN volumes_list
             /\ v.target \in DOMAIN volumes_list)
            => volumes_list[v.source].capacity
                   = volumes_list[v.target].capacity

\* expandvdisksize has just grown the source of a stored mapping
C9_Witness ==
    /\ last.cmd = "expandvdisksize" /\ err = ""
    /\ \E k \in DOMAIN fcmappings_list :
           /\ fcmappings_list[k].source = last.obj[1]
           /\ fcmappings_list[k].target \in DOMAIN volumes_list

\* the index of the unit in B, KB, MB, GB, TB, PB
UnitIndex(unit) ==
    CHOOSE k \in 0..5 : Lower(unit_array[k + 1]) = Lower(unit)

\* size * 1024^k as a byte count, for 0 < size < 1024
TimesUnit(size, k) == [i \in 1..(k + 1) |-> IF i = k + 1 THEN size ELSE 0]

C10_Step ==
    \A n \in VolNames :
        ( /\ last'.cmd = "mkvdisk"
          /\ last'.obj[1] = n
          /\ last'.obj[4] # NoArg )
        => IF n \in DOMAIN volumes_list
           THEN /\ err' = "CMMVC6035E" /\ exc' = ""
                /\ volumes_list' = volumes_list
           ELSE LET capacity == TimesUnit(last'.obj[2], UnitIndex(last'.obj[3]))
                    ls == cmd_lsvdisk(Sim', n)
                IN  /\ err' = "" /\ exc' = ""
                    /\ n \in DOMAIN volumes_list'
                    /\ volumes_list'[n].capacity = capacity
                    /\ ls.err = ""
                    /\ ls.out[1].name = n
                    /\ ls.out[1].capacity = capacity
                    /\ \A m \in DOMAIN volumes_list :
                           volumes_list'[m] = volumes_list[m]

\* C10: mkvdisk (with its -easytier argument, as the driver gives it) for
\* a name not on the array stores a volume whose capacity, as lsvdisk
\* reports it, is size * 1024^k for the unit of index k, leaving the other
\* volumes alone; for a name on the array it returns CMMVC6035E and
\* leaves every volume, its capacity and id included, unchanged.
C10_Mkvdisk == [][C10_Step]_vars

\* a second mkvdisk of a one-petabyte volume's name has just been refused
C10_Witness ==
    /\ last.cmd = "mkvdisk" /\ err = "CMMVC6035E"
    /\ last.obj[1] \in DOMAIN volumes_list
    /\ volumes_list[last.obj[1]].capacity = <<0, 0, 0, 0, 0, 1>>

\* ---- host, capacity and connection claims ----

(***************************************************************************)
(* Deleting a volume that is not on the array: claim C11, under SpecExt.   *)
(***************************************************************************)
\* C11: delete_volume of a volume that is not on the array raises nothing
\* and leaves the array as it was, where rmvdisk of it fails with
\* CMMVC5753E; and a delete_volume that raised nothing leaves the volume
\* off the array, so that a second delete_volume of it raises nothing
\* either.
C11_Step ==
    \A n \in DrvVols :
        (last'.cmd = "delete_volume" /\ last'.obj[1] = n)
        => /\ n \notin DOMAIN volumes_list
                 => /\ exc' = ""
                    /\ UNCHANGED <<volumes_list, fcmappings_list,
                                   hosts_list, mappings_list, other_pools>>
                    /\ cmd_rmvdisk(Sim, n, FALSE).err = "CMMVC5753E"
           /\ exc' = "" => n \notin DOMAIN volumes_list'

C11_DeleteAbsent == [][C11_Step]_vars

\* delete_volume has just returned for a volume that was not on the
\* array, while other volumes and a FlashCopy mapping are
C11_Witness ==
    /\ last.cmd = "delete_volume" /\ last.pre = "absent" /\ exc = ""
    /\ last.obj[1] \notin DOMAIN volumes_list
    /\ volumes_list # <<>>
    /\ fcmappings_list # <<>>

(***************************************************************************)
(* Deleting a volume that is in use: claim C12, under SpecUse.             *)
(***************************************************************************)
\* a host mapping or a FlashCopy mapping names the volume
InUse(name) ==
    \/ \E k \in DOMAIN mappings_list : mappings_list[k].vol = name
    \/ \E k \in DOMAIN fcmappings_list :
           \/ fcmappings_list[k].source = name
           \/ fcmappings_list[k].target = name

\* C12: rmvdisk without -force of a stored volume that has a host mapping,
\* or is the source or the target of a FlashCopy mapping, fails with
\* CMMVC5840E and the volume store is as it was; rmvdisk of a stored volume
\* that has no such mapping, or with -force, succeeds and removes that
\* volume and no other.
C12_Step ==
    \A n \in VolNames :
        ( /\ last'.cmd = "rmvdisk"
          /\ last'.obj = n
          /\ n \in DOMAIN volumes_list )
        => IF ~last'.force /\ InUse(n)
           THEN /\ err' = "CMMVC5840E"
                /\ volumes_list' = volumes_list
           ELSE /\ err' = ""
                /\ volumes_list' = Del(volumes_list, n)

C12_Rmvdisk == [][C12_Step]_vars

\* rmvdisk without -force has just been refused for a volume that is
\* mapped to a host and is in no FlashCopy mapping
C12_Witness ==
    /\ last.cmd = "rmvdisk" /\ ~last.force /\ err = "CMMVC5840E"
    /\ last.obj \in DOMAIN volumes_list
    /\ \E k \in DOMAIN mappings_list : mappings_list[k].vol = last.obj
    /\ \A k \in DOMAIN fcmappings_list :
           /\ fcmappings_list[k].source # last.obj
           /\ fcmappings_list[k].target # last.obj

(***************************************************************************)
(* Extending a volume: claim C13, under SpecExt.                           *)
(***************************************************************************)
\* n GiB as a byte count
GiB(n) == <<0, 0, 0, n>>

\* a FlashCopy mapping has the volume as its source or its target
FcMapped(name) ==
    \E k \in DOMAIN fcmappings_list :
        \/ fcmappings_list[k].source = name
        \/ fcmappings_list[k].target = name

\* C13: extend_volume of a stored volume that is the source or the target
\* of a FlashCopy mapping raises VolumeBackendAPIException and leaves
\* every capacity as it was; extend_volume of a stored volume that is in
\* no mapping raises nothing, and the volume's capacity is then the new
\* size, in GiB, and no other volume has changed.
C13_Step ==
    \A n \in DrvVols :
        (last'.cmd = "extend_volume" /\ last'.obj[1] = n)
        => IF FcMapped(n)
           THEN /\ exc' = "VolumeBackendAPIException"
                /\ volumes_list' = volumes_list
           ELSE /\ exc' = ""
                /\ volumes_list' =
                       [volumes_list EXCEPT
                            ![n].capacity = GiB(last'.obj[3])]

C13_ExtendVolume == [][C13_Step]_vars

\* extend_volume has just been refused for a volume that has a snapshot,
\* after an earlier extend_volume had made it two GiB
C13_Witness ==
    /\ last.cmd = "extend_volume"
    /\ exc = "VolumeBackendAPIException"
    /\ last.obj[1] \in DOMAIN volumes_list
    /\ volumes_list[last.obj[1]].capacity = GiB(2)
    /\ \E k \in DOMAIN fcmappings_list :
           /\ fcmappings_list[k].source = last.obj[1]
           /\ fcmappings_list[k].target \in DOMAIN volumes_list

(***************************************************************************)
(* Capacity of a stored volume: claim C14, under SpecArr.                  *)
(***************************************************************************)
\* C14: in every step a volume that is stored before and after keeps its
\* capacity, unless the step is an expandvdisksize of that volume that
\* returned no error, and then its capacity has grown by exactly the
\* -size given, in GiB.
C14_Step ==
    \A n \in VolNames :
        (n \in DOMAIN volumes_list /\ n \in DOMAIN volumes_list')
        => IF /\ last'.cmd = "expandvdisksize"
              /\ last'.obj[1] = n
              /\ err' = ""
           THEN \E g \in 1..(MaxCapGiB + 2) :
                    /\ volumes_list[n].capacity = GiB(g)
                    /\ volumes_list'[n].capacity = GiB(g + last'.obj[2])
           ELSE volumes_list'[n].capacity = volumes_list[n].capacity

C14_CapacityFrame == [][C14_Step]_vars

\* expandvdisksize -size 2 has just grown a volume that has a second copy
\* and a host mapping and is the source of a FlashCopy mapping
C14_Witness ==
    /\ last.cmd = "expandvdisksize" /\ err = ""
    /\ last.obj[2] = 2
    /\ last.obj[1] \in DOMAIN volumes_list
    /\ volumes_list[last.obj[1]].capacity = GiB(3)
    /\ Cardinality(DOMAIN volumes_list[last.obj[1]].copies) = 2
    /\ \E k \in DOMAIN mappings_list : mappings_list[k].vol = last.obj[1]
    /\ \E k \in DOMAIN fcmappings_list :
           fcmappings_list[k].source = last.obj[1]

(***************************************************************************)
(* Connections: claims C15 to C17, under SpecConn.                         *)
(***************************************************************************)
\* the hosts that have the connector's initiator
HostsOf(hosts, c) ==
    {h \in DOMAIN hosts :
        has_port(hosts[h].iscsi_names, Connectors[c].initiator)}

\* the mappings of the volume to the host
MappingsOf(maps, host, volume) ==
    {k \in DOMAIN maps : maps[k].host = host /\ maps[k].vol = volume}

\* C15: an initialize_connection that raised nothing leaves exactly one
\* host that has the connector's initiator, the host it resolved to, and
\* exactly one mapping of the volume to that host; and an
\* initialize_connection that finds the connector's host and the volume
\* mapped to it, as a first one left them, raises nothing, resolves to
\* that same host and leaves the hosts and the mappings as they were.
C15_Step ==
    \A v \in VolNames, c \in {"A", "B"} :
        ( /\ last'.cmd = "initialize_connection"
          /\ last'.obj[1] = v
          /\ last'.obj[2] = c )
        => /\ exc' = ""
                 => /\ HostsOf(hosts_list', c) = {last'.obj[3]}
                    /\ Cardinality(MappingsOf(mappings_list', last'.obj[3],
                                              v)) = 1
           /\ \A h \in HostsOf(hosts_list, c) :
                  MappingsOf(mappings_list, h, v) # {}
                  => /\ exc' = ""
                     /\ last'.obj[3] = h
                     /\ hosts_list' = hosts_list
                     /\ mappings_list' = mappings_list

C15_InitializeTwice == [][C15_Step]_vars

\* initialize_connection has just returned for a connector and a volume
\* that were connected already, on an array that has another host and
\* another mapping as well
C15_Witness ==
    /\ last.cmd = "initialize_connection"
    /\ last.pre = "mapped"
    /\ exc = ""
    /\ HostsOf(hosts_list, last.obj[2]) = {last.obj[3]}
    /\ Cardinality(MappingsOf(mappings_list, last.obj[3], last.obj[1])) = 1
    /\ Cardinality(DOMAIN hosts_list) = 2
    /\ Cardinality(DOMAIN mappings_list) > 1

\* the host has a mapping
HasMapping(maps, host) == \E k \in DOMAIN maps : maps[k].host = host

\* C16: a terminate_connection for a connector whose host the volume is
\* mapped to raises nothing and removes that mapping; after a
\* terminate_connection that raised nothing, a host whose mapping to the
\* volume it removed is on the array if and only if it has a mapping
\* left; and rmhost of a host that has a mapping fails with CMMVC5871E
\* and removes no host.
C16_Step ==
    /\ \A v \in VolNames, c \in {"A", "B", "N"} :
           ( /\ last'.cmd = "terminate_connection"
             /\ last'.obj[1] = v
             /\ last'.obj[2] = c )
           => /\ \A h \in HostsOf(hosts_list, c) :
                     MappingsOf(mappings_list, h, v) # {}
                     => /\ exc' = ""
                        /\ MappingsOf(mappings_list', h, v) = {}
              /\ exc' = ""
                    => \A h \in DOMAIN hosts_list :
                           ( /\ MappingsOf(mappings_list, h, v) # {}
                             /\ MappingsOf(mappings_list', h, v) = {} )
                           => ( h \in DOMAIN hosts_list'
                                  <=> HasMapping(mappings_list', h) )
    /\ \A h \in HostNames :
           ( /\ last'.cmd = "rmhost"
             /\ last'.obj = h
             /\ HasMapping(mappings_list, h) )
           => /\ err' = "CMMVC5871E"
              /\ hosts_list' = hosts_list

C16_HostWhileMapped == [][C16_Step]_vars

\* terminate_connection has just unmapped one of the two volumes that
\* were mapped to the connector's host, and the host is still there
C16_Witness ==
    /\ last.cmd = "terminate_connection"
    /\ last.pre = "mapped"
    /\ exc = ""
    /\ last.obj[3] \in DOMAIN hosts_list
    /\ MappingsOf(mappings_list, last.obj[3], last.obj[1]) = {}
    /\ HasMapping(mappings_list, last.obj[3])

\* the volume has a host mapping
VolMapped(maps, volume) == \E k \in DOMAIN maps : maps[k].vol = volume

\* C17: terminate_connection with a connector that names a host, and whose
\* initiator no host on the array has, raises VolumeBackendAPIException
\* and leaves the hosts and the mappings as they were;
\* terminate_connection with a connector that has a host on the array,
\* for a volume that has no host mapping, raises nothing and leaves the
\* hosts, the mappings and the volumes as they were.
C17_Step ==
    \A v \in VolNames, c \in {"A", "B"} :
        ( /\ last'.cmd = "terminate_connection"
          /\ last'.obj[1] = v
          /\ last'.obj[2] = c )
        => /\ HostsOf(hosts_list, c) = {}
                 => /\ exc' = "VolumeBackendAPIException"
                    /\ hosts_list' = hosts_list
                    /\ mappings_list' = mappings_list
           /\ ( /\ HostsOf(hosts_list, c) # {}
                /\ ~VolMapped(mappings_list, v) )
                 => /\ exc' = ""
                    /\ hosts_list' = hosts_list
                    /\ mappings_list' = mappings_list
                    /\ volumes_list' = volumes_list

C18_UniqueInitiator ==
    \A h1, h2 \in DOMAIN hosts_list :
        h1 # h2 =>
            \A p \in Ports :
                /\ ~ ( /\ has_port(hosts_list[h1].iscsi_names, p)
                       /\ has_port(hosts_list[h2].iscsi_names, p) )
                /\ ~ ( /\ has_port(hosts_list[h1].wwpns, p)
                       /\ has_port(hosts_list[h2].wwpns, p) )

\* addhostport has just failed with CMMVC6581E for a port of another host,
\* and the host it named has the port all the same
C18_Witness ==
    /\ last.cmd = "addhostport" /\ err = "CMMVC6581E"
    /\ last.obj[1] \in DOMAIN hosts_list
    /\ has_port(ports_of(hosts_list[last.obj[1]],
                         IF last.obj[2] = "iscsiname"
                         THEN "iscsi_names" ELSE "wwpns"),
                last.obj[3])

(***************************************************************************)
(* Host mappings: claims C19 and C20, under SpecMap.                       *)
(***************************************************************************)
\* no two mappings of the store m have the same host and the same LUN
UniqueHostLun(m) ==
    \A k1, k2 \in DOMAIN m :
        (k1 # k2 /\ m[k1].host = m[k2].host) => m[k1].lun # m[k2].lun

\* C19: after every step no two stored host mappings have both the same
\* host and the same LUN, whether or not any of them was made with -force;
\* and a mkvdiskhostmap without -force, of a stored volume, with a host
\* and a LUN that a stored mapping already has, fails with CMMVC5879E and
\* leaves the mappings as they were.
C19_Step ==
    /\ UniqueHostLun(mappings_list')
    /\ ( /\ last'.cmd = "mkvdiskhostmap"
         /\ ~last'.force
         /\ last'.obj[3] \in DOMAIN volumes_list
         /\ \E k \in DOMAIN mappings_list :
                /\ mappings_list[k].host = last'.obj[1]
                /\ mappings_list[k].lun = last'.obj[2] )
       => ( /\ err' = "CMMVC5879E"
            /\ mappings_list' = mappings_list )

C19_HostLunUnique == [][C19_Step]_vars

\* mkvdiskhostmap without -force has just been refused for a host and LUN
\* that a mapping of another volume has
C19_Witness ==
    /\ last.cmd = "mkvdiskhostmap" /\ ~last.force /\ err = "CMMVC5879E"
    /\ \E k \in DOMAIN mappings_list :
           /\ mappings_list[k].host = last.obj[1]
           /\ mappings_list[k].lun = last.obj[2]
           /\ mappings_list[k].vol # last.obj[3]

\* C20: in every reachable state there is at most one mapping between a
\* volume and a host.
C20_OneLunPerHost ==
    \A k1, k2 \in DOMAIN mappings_list :
        ( /\ mappings_list[k1].host = mappings_list[k2].host
          /\ mappings_list[k1].vol = mappings_list[k2].vol )
        => k1 = k2

\* mkvdiskhostmap has just mapped a volume to a host it was already mapped
\* to, under another LUN
C20_Witness ==
    /\ last.cmd = "mkvdiskhostmap" /\ err = ""
    /\ \E k1, k2 \in DOMAIN mappings_list :
           /\ mappings_list[k1].host = last.obj[1]
           /\ mappings_list[k2].host = last.obj[1]
           /\ mappings_list[k1].vol = last.obj[3]
           /\ mappings_list[k2].vol = last.obj[3]
           /\ mappings_list[k1].lun # mappings_list[k2].lun

(***************************************************************************)
(* Mapping a volume to a second host: claim C21, under SpecMap.            *)
(***************************************************************************)
\* the volume is mapped to a host other than the one given
MappedElsewhere(maps, host, volume) ==
    \E k \in DOMAIN maps : maps[k].vol = volume /\ maps[k].host # host

\* C21: a mkvdiskhostmap of a stored volume to a stored host, while the
\* volume is mapped to another host, fails with CMMVC6071E without -force,
\* whatever the LUN, and leaves the mappings as they were; with -force,
\* and a LUN the host does not use, it returns no error and the volume is
\* then mapped to both hosts.
C21_Step ==
    \A h \in HostNames, v \in VolNames :
        ( /\ last'.cmd = "mkvdiskhostmap"
          /\ last'.obj[1] = h
          /\ last'.obj[3] = v
          /\ v \in DOMAIN volumes_list
          /\ h \in DOMAIN hosts_list
          /\ MappedElsewhere(mappings_list, h, v) )
        => IF ~last'.force
           THEN /\ err' = "CMMVC6071E"
                /\ mappings_list' = mappings_list
           ELSE (\A k \in DOMAIN mappings_list :
                     mappings_list[k].host = h
                     => mappings_list[k].lun # last'.obj[2])
                => /\ err' = ""
                   /\ MappedElsewhere(mappings_list', h, v)
                   /\ \E k \in DOMAIN mappings_list' :
                          /\ mappings_list'[k].vol = v
                          /\ mappings_list'[k].host = h

C21_SecondHost == [][C21_Step]_vars

\* mkvdiskhostmap without -force has just mapped a volume to a host while
\* the volume was mapped to another host, and it is mapped to both
C21_Witness ==
    /\ last.cmd = "mkvdiskhostmap" /\ ~last.force /\ err = ""
    /\ \E k \in DOMAIN mappings_list :
           /\ mappings_list[k].vol = last.obj[3]
           /\ mappings_list[k].host = last.obj[1]
           /\ mappings_list[k].lun = last.obj[2]
    /\ MappedElsewhere(mappings_list, last.obj[1], last.obj[3])

(***************************************************************************)
(* The primary copy of a volume: claim C22, under SpecCopy.                *)
(***************************************************************************)
\* the copies of the volume that are primary
PrimaryCopies(vol) ==
    {c \in DOMAIN vol.copies : vol.copies[c].primary = "yes"}

\* C22: in every reachable state every stored volume has exactly one copy
\* whose primary flag is yes.
C22_OnePrimary ==
    \A n \in DOMAIN volumes_list :
        Cardinality(PrimaryCopies(volumes_list[n])) = 1

\* rmvdiskcopy has just removed the original copy of a volume that had a
\* copy added in another pool, and the copy that is left is not primary
C22_Witness ==
    /\ last.cmd = "rmvdiskcopy" /\ err = ""
    /\ last.obj \in DOMAIN volumes_list
    /\ DOMAIN volumes_list[last.obj].copies = {1}
    /\ volumes_list[last.obj].copies[1].mdisk_grp_name = "openstack2"
    /\ PrimaryCopies(volumes_list[last.obj]) = {}

(***************************************************************************)
(* The pool of a volume: claim C23, under SpecPool.                        *)
(***************************************************************************)
\* the volumes a pool holds
PoolVolumes(p) ==
    IF p = volpool_name THEN DOMAIN volumes_list
    ELSE DOMAIN other_pools[p]

\* the pools that hold a volume of the name
PoolsOf(name) == {p \in PoolNames : name \in PoolVolumes(p)}

\* C23: in every reachable state no volume name is in more than one pool.
C23_OnePool == \A n \in VolNames : Cardinality(PoolsOf(n)) <= 1

\* mkvdisk has just made a volume under a name that a volume migrated to
\* another pool has
C23_Witness ==
    /\ last.cmd = "mkvdisk" /\ err = ""
    /\ last.obj[1] \in DOMAIN volumes_list
    /\ last.obj[1] \in DOMAIN other_pools["openstack2"]

(***************************************************************************)
(* Migration between pools: claim C24, under SpecMig.  migrate_volume is   *)
(* an operation of the driver and follows the specification's section 4.3  *)
(* and the tests test_storwize_svc_migrate_*.  A text is a sequence of     *)
(* tokens, ":" being one of them; the destination's capabilities are a     *)
(* record that has the field location_info or lacks it.                    *)
(***************************************************************************)
\* str.split(sep) from the left: done are the pieces ended by a
\* separator, cur is the piece being read
RECURSIVE split_from(_, _, _, _)
split_from(s, sep, done, cur) ==
    IF s = <<>> THEN Append(done, cur)
    ELSE IF Head(s) = sep THEN split_from(Tail(s), sep, Append(done, cur), <<>>)
    ELSE split_from(Tail(s), sep, done, Append(cur, Head(s)))

\* str.split(sep): the pieces of a text between the separators
split(s, sep) == split_from(s, sep, <<>>, <<>>)

\* the id lssystem reports, which the driver keeps as _system_id
system_id == "0123456789ABCDEF"

\* the extent size lsmdiskgrp reports for the driver's pool
own_extent_size == "256"

\* the name the driver's location_info starts with
driver_name == "StorwizeSVCDriver"

\* the pool a piece of a location_info names
pool_of(piece) == IF Len(piece) = 1 THEN piece[1] ELSE "<no pool>"

\* whether the pieces of a location_info name this driver, whatever the
\* system
hint_fits_any_system(pieces) ==
    /\ Len(pieces) = 3
    /\ pieces[1] = <<driver_name>>

\* whether the pieces of a location_info name this driver and this system
hint_fits(pieces) ==
    /\ Len(pieces) = 3
    /\ pieces[1] = <<driver_name>>
    /\ pieces[2] = <<system_id>>

\* the result of migrate_volume: the store, the exception, and the pair
\* (moved, model_update) it returns when it does not raise
Migrated(r, moved) ==
    [sim |-> r.sim, exc |-> r.exc, step |-> r.step,
     ret |-> IF r.exc = "" THEN <<[moved |-> moved, model_update |-> NoArg]>>
             ELSE <<>>]

\* the row of the primary copy among the rows of lsvdiskcopy
primary_of(rows) ==
    (CHOOSE i \in DOMAIN rows : rows[i].primary = "yes")

\* the last step of the migration by copy: the original copy goes
migrate_swap(S, name, orig) ==
    IF cmd_rmvdiskcopy(S, name, orig).err # ""
    THEN Fail(S, "ProcessExecutionError", "rmvdiskcopy")
    ELSE Done(cmd_rmvdiskcopy(S, name, orig).sim)

\* the second step: wait until the new copy is synchronised
migrate_sync(S, name, orig, new) ==
    IF cmd_lsvdiskcopy(S, <<>>, name, new).exc # ""
    THEN Fail(S, cmd_lsvdiskcopy(S, <<>>, name, new).exc, "lsvdiskcopy")
    ELSE IF cmd_lsvdiskcopy(S, <<>>, name, new).err # ""
    THEN Fail(S, "ProcessExecutionError", "lsvdiskcopy")
    ELSE migrate_swap(cmd_lsvdiskcopy(S, <<>>, name, new).sim, name, orig)

\* migration to a pool of another extent size: a copy is added in the
\* destination pool, and once it is synchronised the original is removed
migrate_by_copy(S, name, pool, ls) ==
    IF ls.exc # "" THEN Fail(S, ls.exc, "lsvdiskcopy")
    ELSE IF ls.err # "" \/ \A i \in DOMAIN ls.out : ls.out[i].primary # "yes"
    THEN Fail(S, "VolumeBackendAPIException", "lsvdiskcopy")
    ELSE IF cmd_addvdiskcopy(S, name, pool, "on").err # ""
    THEN Fail(S, "ProcessExecutionError", "addvdiskcopy")
    ELSE migrate_sync(cmd_addvdiskcopy(S, name, pool, "on").sim, name,
                      id_str(ls.out[primary_of(ls.out)].copy_id),
                      id_str(cmd_addvdiskcopy(S, name, pool, "on").out[1].cid))

\* migration to a pool of the same extent size: migratevdisk
migrate_by_move(S, name, pool) ==
    IF cmd_migratevdisk(S, pool, name).exc # ""
    THEN Fail(S, cmd_migratevdisk(S, pool, name).exc, "migratevdisk")
    ELSE IF cmd_migratevdisk(S, pool, name).err # ""
    THEN Fail(S, "ProcessExecutionError", "migratevdisk")
    ELSE Done(cmd_migratevdisk(S, pool, name).sim)

\* migrate_volume with the pieces of its hint
migrate_to(S, name, caps, pieces) ==
    IF ~hint_fits(pieces) THEN Migrated(Done(S), FALSE)
    ELSE IF pool_of(pieces[3]) = volpool_name THEN Migrated(Done(S), FALSE)
    ELSE IF caps.extent_size = own_extent_size
    THEN Migrated(migrate_by_move(S, name, pool_of(pieces[3])), TRUE)
    ELSE Migrated(migrate_by_copy(S, name, pool_of(pieces[3]),
                      IF name \in DOMAIN S.volumes_list
                      THEN cmd_lsvdiskcopy(S,
                               SortedIds(S.volumes_list[name].copies, 0),
                               name, NoArg)
                      ELSE cmd_lsvdiskcopy(S, <<>>, name, NoArg)),
                  TRUE)

\* migrate_volume(ctxt, volume, host), caps being host['capabilities']
migrate_volume(S, volume, caps) ==
    IF "location_info" \notin DOMAIN caps THEN Migrated(Done(S), FALSE)
    ELSE migrate_to(S, volume, caps, split(caps.location_info, ":"))

MigrateVolume(volume, caps) ==
    Apply([sim |-> migrate_volume(Sim, volume, caps).sim,
           out |-> migrate_volume(Sim, volume, caps).ret, err |-> "",
           exc |-> migrate_volume(Sim, volume, caps).exc],
          Cmd("migrate_volume", <<volume, caps>>, FALSE,
              migrate_volume(Sim, volume, caps).step))

\* location_info texts that do not name this backend: an empty one, one
\* of one, two and four pieces, one of another driver, one of another
\* system
OtherHints ==
    { <<>>, <<"foo">>,
      <<driver_name, ":", system_id>>,
      <<driver_name, ":", system_id, ":", "openstack2", ":", "bar">>,
      <<"FooDriver", ":", "foo", ":", "bar">>,
      <<"FooDriver", ":", system_id, ":", "openstack2">>,
      <<driver_name, ":", "foo", ":", "bar">>,
      <<driver_name, ":", "foo", ":", "openstack2">> }

\* location_info texts that name this backend and one of its pools
OwnHints == {<<driver_name, ":", system_id, ":", p>> : p \in PoolNames}

ExtentSizes == {"256", "128"}

\* the capabilities migrate_volume is called with in SpecMig
MigCaps ==
    {[extent_size |-> e] : e \in ExtentSizes}
    \cup {[location_info |-> h, extent_size |-> e] :
              h \in OtherHints \cup OwnHints, e \in ExtentSizes}

(***************************************************************************)
(* SpecMig: a volume of one gigabyte is made, removed and migrated.        *)
(***************************************************************************)
NextMig ==
    \/ Mkvdisk("vol1", 1, "gb", "on")
    \/ Rmvdisk("vol1", FALSE)
    \/ \E c \in MigCaps : MigrateVolume("vol1", c)

SpecMig == Init /\ [][NextMig]_vars

\* C24: a migrate_volume whose destination capabilities have no
\* location_info, or one that does not name this backend (OtherHints),
\* returns (moved = False, model_update = None), raises nothing and leaves
\* the store of the array as it was.
C24_Step ==
    ( /\ last'.cmd = "migrate_volume"
      /\ \/ "location_info" \notin DOMAIN last'.obj[2]
         \/ last'.obj[2].location_info \in OtherHints )
    => /\ out' = <<[moved |-> FALSE, model_update |-> NoArg]>>
       /\ exc' = ""
       /\ Sim' = Sim

MaxTokens == 3        \* a command has at most this many tokens

no_param_args ==
    {"autodelete", "autoexpand", "bytes", "compressed", "force", "nohdr"}

one_param_args ==
    {"chapsecret", "cleanrate", "copy", "copyrate", "delim", "easytier",
     "filtervalue", "grainsize", "hbawwpn", "host", "iogrp", "iscsiname",
     "mdiskgrp", "name", "rsize", "scsi", "size", "source", "target",
     "unit", "vdisk", "warning", "wwpn"}

\* the string a token is
RECURSIVE token_str(_)
token_str(tok) ==
    IF tok = <<>> THEN "" ELSE Head(tok) \o token_str(Tail(tok))

\* the loop of _cmd_to_dict from the token at index i (counted from 1)
RECURSIVE cmd_to_dict_args(_, _, _)
cmd_to_dict_args(arg_list, i, ret) ==
    IF i > Len(arg_list) THEN [exc |-> "", kwargs |-> ret]
    ELSE IF arg_list[i] = <<>> THEN [exc |-> "IndexError", kwargs |-> ret]
    ELSE IF Head(arg_list[i]) # "-"
    THEN cmd_to_dict_args(arg_list, i + 1,
                          Put(ret, "obj", token_str(arg_list[i])))
    ELSE IF token_str(Tail(arg_list[i])) \in no_param_args
    THEN cmd_to_dict_args(arg_list, i + 1,
                          Put(ret, token_str(Tail(arg_list[i])), "True"))
    ELSE IF token_str(Tail(arg_list[i])) \in one_param_args
    THEN (IF i + 1 > Len(arg_list)
          THEN [exc |-> "IndexError", kwargs |-> ret]
          ELSE cmd_to_dict_args(arg_list, i + 2,
                                Put(ret, token_str(Tail(arg_list[i])),
                                    token_str(arg_list[i + 1]))))
    ELSE [exc |-> "InvalidInput", kwargs |-> ret]

\* _cmd_to_dict: the command and its arguments as a dictionary, or the
\* exception raised
cmd_to_dict(arg_list) ==
    IF arg_list = <<>> THEN [exc |-> "IndexError", kwargs |-> <<>>]
    ELSE IF token_str(arg_list[1]) \in {"svcinfo", "svctask"}
    THEN (IF Len(arg_list) < 2 THEN [exc |-> "IndexError", kwargs |-> <<>>]
          ELSE IF token_str(arg_list[2]) # "lsnode"
          THEN cmd_to_dict_args(Tail(arg_list), 2,
                                [cmd |-> token_str(arg_list[2])])
          ELSE IF Len(arg_list) > 4
          THEN cmd_to_dict_args(Tail(arg_list), 2,
                   [cmd |-> "lsnode",
                    node_id |-> token_str(arg_list[Len(arg_list)])])
          ELSE cmd_to_dict_args(Tail(arg_list), 2,
                                [cmd |-> "lsnodecanister"]))
    ELSE cmd_to_dict_args(arg_list, 2, [cmd |-> token_str(arg_list[1])])

\* kwargs[key], NoArg when the key is not in kwargs
kwarg(kwargs, key) ==
    IF key \in DOMAIN kwargs THEN kwargs[key] ELSE NoArg

\* the branches of execute_command for rmvdisk and rmhost, and its last
\* branch; the commands of SpecExec name no other command of the simulator
run_command(S, kwargs) ==
    IF kwargs.cmd = "rmvdisk"
    THEN (IF "obj" \notin DOMAIN kwargs THEN Ret(S, <<>>, "CMMVC5701E")
          ELSE cmd_rmvdisk(S, kwargs.obj, "force" \in DOMAIN kwargs))
    ELSE IF kwargs.cmd = "rmhost"
    THEN cmd_rmhost(S, kwarg(kwargs, "obj"))
    ELSE Ret(S, <<>>, "ERROR: Unsupported command")

\* the end of execute_command: ProcessExecutionError, which carries out
\* and err, when the exit code is checked and err is not empty
checked(r, check_exit_code) ==
    IF check_exit_code /\ r.err # ""
    THEN [r EXCEPT !.exc = "ProcessExecutionError"]
    ELSE r

\* execute_command once the tokens are parsed
execute_parsed(S, parsed, check_exit_code) ==
    IF parsed.exc = "IndexError" THEN Ret(S, <<>>, "CMMVC5707E")
    ELSE IF parsed.exc # "" THEN Raise(S, parsed.exc)
    ELSE checked(run_command(S, parsed.kwargs), check_exit_code)

\* execute_command(cmd, check_exit_code)
execute_command(S, cmd, check_exit_code) ==
    execute_parsed(S, cmd_to_dict(cmd), check_exit_code)

\* the tokens of the commands of SpecExec
ExecTokens ==
    { <<"svctask">>, <<"rmvdisk">>, <<"frobnicate">>, <<"vol1">>, <<>>,
      <<"-", "force">>, <<"-", "name">>, <<"-", "bogus">> }

ExecCmds == UNION {[1..n -> ExecTokens] : n \in 0..MaxTokens}

\* the store after construction, and the one after mkvdisk of vol1
NewStore ==
    [volumes_list |-> <<>>, hosts_list |-> <<>>, mappings_list |-> <<>>,
     fcmappings_list |-> <<>>,
     other_pools |-> [p \in {"openstack2", "openstack3"} |-> <<>>],
     next_cmd_error |-> [c \in InjectableCmds |-> ""]]

ExecStores ==
    {NewStore, cmd_mkvdisk(NewStore, "vol1", BigOfInt(1), "gb", "on").sim}

\* a store, a command and a check_exit_code are drawn
InitExec ==
    /\ \E S \in ExecStores :
           /\ volumes_list = S.volumes_list
           /\ hosts_list = S.hosts_list
           /\ mappings_list = S.mappings_list
           /\ fcmappings_list = S.fcmappings_list
           /\ other_pools = S.other_pools
           /\ next_cmd_error = S.next_cmd_error
    /\ out = <<>> /\ err = "" /\ exc = ""
    /\ nfs = NfsNew
    /\ netapp = NetappNew
    /\ \E cmd \in ExecCmds, check \in BOOLEAN :
           last = Cmd("input", <<cmd, check>>, FALSE, "")

\* execute_command on the command drawn
ExecuteCommand ==
    /\ last.cmd = "input"
    /\ Apply(execute_command(Sim, last.obj[1], last.obj[2]),
             Cmd("execute_command", last.obj, FALSE, ""))

(***************************************************************************)
(* SpecExec: one command of up to MaxTokens tokens is executed, with or    *)
(* without the check of the exit code, on a store with or without vol1.    *)
(***************************************************************************)
NextExec == ExecuteCommand

SpecExec == InitExec /\ [][NextExec]_vars

\* C25: after execute_command without the check of the exit code no
\* exception has escaped; after one with the check, ProcessExecutionError
\* has escaped when the error text is not empty, and nothing has when it
\* is empty.
C25_ExitCode ==
    last.cmd = "execute_command"
    => IF ~last.obj[2] THEN exc = ""
       ELSE IF err # "" THEN exc = "ProcessExecutionError"
       ELSE exc = ""

\* a command with an argument the simulator does not know has raised
\* InvalidInput though the exit code was not to be checked
C25_Witness ==
    /\ last.cmd = "execute_command" /\ ~last.obj[2]
    /\ last.obj[1] = << <<"rmvdisk">>, <<"-", "bogus">> >>
    /\ exc = "InvalidInput"

(***************************************************************************)
(* The statistics of the NFS driver: claims C26 and C27, under SpecNfs.    *)
(* Source: cinder/volume/drivers/nfs.py, class NfsDriver.  The driver's    *)
(* state is the variable nfs; what its commands print (df, du) and whether *)
(* a share can be mounted are inputs of the call that runs them.  A number *)
(* of gigabytes is a fraction: a count of bytes over the bytes of a GiB.   *)
(***************************************************************************)
MaxBytes == 1           \* df and du report 0..MaxBytes bytes
BytesPerGiB == 1073741824

\* the shares _load_shares_config reads, in the order of the file
NfsShares == <<"share1", "share2">>

\* the configurations of the driver
NfsConfs ==
    [nfs_disk_util : {"df", "du"}, reserved_percentage : {0, 25},
     volume_backend_name : {NoArg}]

\* what one share answers: whether mounting it succeeds and, if so, the
\* columns of df and the number of du that _get_available_capacity reads
ShareAnswers(conf) ==
    {[mountable |-> FALSE]}
    \cup (IF conf.nfs_disk_util = "df"
          THEN {[mountable |-> TRUE, size |-> s, available |-> a] :
                    s \in 0..MaxBytes, a \in 0..MaxBytes}
          ELSE {[mountable |-> TRUE, size |-> s, used |-> u] :
                    s \in 0..MaxBytes, u \in 0..MaxBytes})

NfsAnswers(conf) == [{"share1", "share2"} -> ShareAnswers(conf)]

\* _get_available_capacity(nfs_share): (available, size)
get_available_capacity(conf, answer) ==
    IF conf.nfs_disk_util = "df"
    THEN [available |-> answer.available, size |-> answer.size]
    ELSE [available |-> answer.size - answer.used, size |-> answer.size]

\* _ensure_shares_mounted: the shares that could be mounted
RECURSIVE ensure_shares_mounted(_, _)
ensure_shares_mounted(shares, answers) ==
    IF shares = <<>> THEN <<>>
    ELSE (IF answers[Head(shares)].mountable THEN <<Head(shares)>>
          ELSE <<>>)
         \o ensure_shares_mounted(Tail(shares), answers)

\* the loop of _update_volume_status: global_capacity and global_free
RECURSIVE global_capacity(_, _, _)
global_capacity(conf, shares, answers) ==
    IF shares = <<>> THEN 0
    ELSE get_available_capacity(conf, answers[Head(shares)]).size
         + global_capacity(conf, Tail(shares), answers)

RECURSIVE global_free(_, _, _)
global_free(conf, shares, answers) ==
    IF shares = <<>> THEN 0
    ELSE get_available_capacity(conf, answers[Head(shares)]).available
         + global_free(conf, Tail(shares), answers)

\* the commands _update_volume_status runs: a mount for every share of the
\* configuration (its stat and mkdir are part of it), df for every mounted
\* share, and du after it when nfs_disk_util is not df
RECURSIVE capacity_commands(_, _)
capacity_commands(conf, shares) ==
    IF shares = <<>> THEN <<>>
    ELSE << <<"df", Head(shares)>> >>
         \o (IF conf.nfs_disk_util = "df" THEN <<>>
             ELSE << <<"du", Head(shares)>> >>)
         \o capacity_commands(conf, Tail(shares))

update_commands(conf, mounted) ==
    [i \in 1..Len(NfsShares) |-> <<"mount", NfsShares[i]>>]
    \o capacity_commands(conf, mounted)

\* the record _update_volume_status builds
volume_status(conf, mounted, answers) ==
    [volume_backend_name |-> IF conf.volume_backend_name = NoArg
                             THEN "Generic_NFS"
                             ELSE conf.volume_backend_name,
     vendor_name |-> "Open Source",
     driver_version |-> "1.0",
     storage_protocol |-> "nfs",
     total_capacity_gb |->
         [bytes |-> global_capacity(conf, mounted, answers),
          per |-> BytesPerGiB],
     free_capacity_gb |->
         [bytes |-> global_free(conf, mounted, answers),
          per |-> BytesPerGiB],
     reserved_percentage |-> 0,
     QoS_support |-> FALSE]

\* _update_volume_status, once the shares are mounted
update_volume_status(N, conf, mounted, answers) ==
    [nfs |-> [N EXCEPT !.mounted_shares = mounted,
                       !.stats = volume_status(conf, mounted, answers)],
     commands |-> update_commands(conf, mounted)]

\* get_volume_stats that never looks at refresh
get_volume_stats_always(N, conf, refresh, answers) ==
    update_volume_status(N, conf,
                         ensure_shares_mounted(NfsShares, answers), answers)

\* get_volume_stats(refresh): the driver it leaves and the commands it
\* ran; what it returns is the _stats it leaves
get_volume_stats(N, conf, refresh, answers) ==
    IF refresh \/ DOMAIN N.stats = {}
    THEN update_volume_status(N, conf,
                              ensure_shares_mounted(NfsShares, answers),
                              answers)
    ELSE [nfs |-> N, commands |-> <<>>]

\* whether one number of gigabytes is at most another
LeqGb(x, y) == x.per = y.per /\ x.bytes <= y.bytes

\* the driver is made with one of the configurations
InitNfs ==
    /\ volumes_list = <<>>
    /\ hosts_list = <<>>
    /\ mappings_list = <<>>
    /\ fcmappings_list = <<>>
    /\ other_pools = [p \in {"openstack2", "openstack3"} |-> <<>>]
    /\ next_cmd_error = [c \in InjectableCmds |-> ""]
    /\ out = <<>> /\ err = "" /\ exc = ""
    /\ nfs = NfsNew
    /\ netapp = NetappNew
    /\ \E conf \in NfsConfs : last = Cmd("NfsDriver", conf, FALSE, "")

\* the configuration the driver was made with
NfsConf == IF last.cmd = "NfsDriver" THEN last.obj ELSE last.obj[1]

\* get_volume_stats(refresh); last holds the configuration, refresh, the
\* answers when the call ran commands, and the commands it ran
GetVolumeStats(refresh, answers) ==
    /\ nfs' = get_volume_stats(nfs, NfsConf, refresh, answers).nfs
    /\ out' = <<nfs'.stats>>
    /\ err' = "" /\ exc' = ""
    /\ last' = Cmd("get_volume_stats",
                   <<NfsConf, refresh,
                     IF get_volume_stats(nfs, NfsConf, refresh,
                                         answers).commands = <<>>
                     THEN <<>> ELSE answers,
                     get_volume_stats(nfs, NfsConf, refresh,
                                      answers).commands>>,
                   FALSE,
                   IF DOMAIN nfs.stats = {} THEN "" ELSE "cached")
    /\ UNCHANGED <<volumes_list, hosts_list, mappings_list, fcmappings_list,
                   other_pools, next_cmd_error, netapp>>

(***************************************************************************)
(* SpecNfs: get_volume_stats, with and without refresh, on shares that     *)
(* answer differently from call to call.                                   *)
(***************************************************************************)
NextNfs ==
    \E refresh \in BOOLEAN, answers \in NfsAnswers(NfsConf) :
        GetVolumeStats(refresh, answers)

SpecNfs == InitNfs /\ [][NextNfs]_vars

\* the answers of the last call report, for every mounted share, no more
\* free bytes than bytes
FreeWithinSize ==
    \A i \in DOMAIN nfs.mounted_shares :
        LET answer == last.obj[3][nfs.mounted_shares[i]]
        IN  IF NfsConf.nfs_disk_util = "df"
            THEN answer.available <= answer.size
            ELSE answer.size - answer.used <= answer.size

\* C26: the record a get_volume_stats has just computed from shares whose
\* free bytes do not exceed their bytes has free_capacity_gb at most
\* total_capacity_gb, and the reserved_percentage of the configuration.
C26_Stats ==
    ( /\ last.cmd = "get_volume_stats"
      /\ last.obj[4] # <<>>
      /\ FreeWithinSize )
    => /\ LeqGb(out[1].free_capacity_gb, out[1].total_capacity_gb)
       /\ out[1].reserved_percentage = NfsConf.reserved_percentage

\* with reserved_percentage configured as 25, get_volume_stats has
\* computed a record from a mounted share, free at most total, whose
\* reserved_percentage is 0
C26_Witness ==
    /\ last.cmd = "get_volume_stats"
    /\ last.obj[4] # <<>>
    /\ nfs.mounted_shares # <<>>
    /\ FreeWithinSize
    /\ NfsConf.reserved_percentage = 25
    /\ LeqGb(out[1].free_capacity_gb, out[1].total_capacity_gb)
    /\ out[1].reserved_percentage = 0

\* C27: a get_volume_stats without refresh, on a driver that has a record
\* of statistics, returns that record, leaves the driver as it was and
\* runs no command.
C27_Step ==
    ( /\ last'.cmd = "get_volume_stats"
      /\ ~last'.obj[2]
      /\ DOMAIN nfs.stats # {} )
    => /\ out' = <<nfs.stats>>
       /\ nfs' = nfs
       /\ last'.obj[4] = <<>>

C27_Lazy == [][C27_Step]_vars

\* get_volume_stats without refresh has returned the record that an
\* earlier call computed from a mounted share, and has run no command
C27_Witness ==
    /\ last.cmd = "get_volume_stats"
    /\ ~last.obj[2]
    /\ last.pre = "cached"
    /\ last.obj[4] = <<>>
    /\ nfs.mounted_shares # <<>>
    /\ out = <<nfs.stats>>

(***************************************************************************)
(* The parser of command output: claim C28, under SpecCli.  CLIResponse    *)
(* is a class of the driver's module and follows the specification's       *)
(* section 4.1 and the tests of CLIResponseTestCase.  The output of a      *)
(* command is a text: a sequence of tokens, the delimiter "!" and the end  *)
(* of line being two of them.  A field is the text between delimiters.     *)
(***************************************************************************)
MaxCols == 2          \* a row has at most this many fields
MaxRows == 2          \* a table has at most this many data rows

Delim == "!"
Eol == "\n"

\* str.splitlines: the lines of a text, without their ends
splitlines(s) ==
    IF s = <<>> THEN <<>>
    ELSE IF s[Len(s)] = Eol THEN split(SubSeq(s, 1, Len(s) - 1), Eol)
    ELSE split(s, Eol)

\* the fields of a line; a blank line has none
fields_of(line) == IF line = <<>> THEN <<>> ELSE split(line, Delim)

\* the rows of a text
rows_of(raw) ==
    [i \in 1..Len(splitlines(raw)) |-> fields_of(splitlines(raw)[i])]

\* the record of a row under the header: each header field is a key, the
\* row's field of the same column its value
RECURSIVE record_of(_, _, _)
record_of(hds, row, cur) ==
    IF hds = <<>> THEN cur
    ELSE record_of(Tail(hds), Tail(row),
                   Put(cur, token_str(Head(hds)), token_str(Head(row))))

\* the records of the first column of the rows alone
parse_header_first_column(rows) ==
    IF rows = <<>> THEN [exc |-> "", records |-> <<>>]
    ELSE [exc |-> "",
          records |-> [i \in 1..(Len(rows) - 1) |->
                           record_of(SubSeq(rows[1], 1, 1),
                                     rows[i + 1] \o << <<>> >>, <<>>)]]

\* the records of the rows under the first row, the header; a row with
\* another number of fields than the header is a MalformedResponse
parse_header(rows) ==
    IF rows = <<>> THEN [exc |-> "", records |-> <<>>]
    ELSE IF \E i \in 2..Len(rows) : Len(rows[i]) # Len(rows[1])
    THEN [exc |-> "MalformedResponse", records |-> <<>>]
    ELSE [exc |-> "",
          records |-> [i \in 1..(Len(rows) - 1) |->
                           record_of(rows[1], rows[i + 1], <<>>)]]

\* CLIResponse(raw, with_header=True)
CLIResponse(raw) == parse_header(rows_of(raw))

\* a row as the array prints it: its fields with the delimiter between
RECURSIVE print_row(_)
print_row(row) ==
    IF row = <<>> THEN <<>>
    ELSE IF Len(row) = 1 THEN row[1]
    ELSE row[1] \o <<Delim>> \o print_row(Tail(row))

\* rows as the array prints them, each line ended
RECURSIVE print_rows(_)
print_rows(rows) ==
    IF rows = <<>> THEN <<>>
    ELSE print_row(Head(rows)) \o <<Eol>> \o print_rows(Tail(rows))

\* header fields and the fields of data rows in SpecCli
HeaderFields == {<<"id">>, <<"name">>}
DataFields == {<<>>, <<"a">>}

\* the rows of n fields out of F
RowsOf(F, n) == [1..n -> F]

\* the data rows under a header: rows of as many fields as the header,
\* and rows of one field less
DataRows(h) ==
    RowsOf(DataFields, Len(h))
    \cup (IF Len(h) > 1 THEN RowsOf(DataFields, Len(h) - 1) ELSE {})

\* the tables under a header: up to MaxRows data rows
TablesUnder(h) ==
    UNION {{<<h>> \o d : d \in [1..n -> DataRows(h)]} : n \in 0..MaxRows}

\* the tables of SpecCli: none, or a header of up to MaxCols fields and
\* its data rows
CliTables ==
    {<<>>}
    \cup UNION {TablesUnder(h) :
                    h \in UNION {RowsOf(HeaderFields, n) : n \in 1..MaxCols}}

\* the store of the array after construction, the drivers after theirs,
\* and l the input drawn
StartWith(l) ==
    /\ volumes_list = <<>>
    /\ hosts_list = <<>>
    /\ mappings_list = <<>>
    /\ fcmappings_list = <<>>
    /\ other_pools = [p \in {"openstack2", "openstack3"} |-> <<>>]
    /\ next_cmd_error = [c \in InjectableCmds |-> ""]
    /\ out = <<>> /\ err = "" /\ exc = ""
    /\ nfs = NfsNew
    /\ netapp = NetappNew
    /\ last = l

InitCli == \E t \in CliTables : StartWith(Cmd("output", t, FALSE, ""))

\* the table drawn is printed and the text parsed
ParseOutput ==
    /\ last.cmd = "output"
    /\ out' = CLIResponse(print_rows(last.obj)).records
    /\ exc' = CLIResponse(print_rows(last.obj)).exc
    /\ err' = ""
    /\ last' = Cmd("CLIResponse", last.obj, FALSE, "")
    /\ UNCHANGED <<volumes_list, hosts_list, mappings_list, fcmappings_list,
                   other_pools, next_cmd_error, nfs, netapp>>

(***************************************************************************)
(* SpecCli: a table is printed as the array prints it, and parsed.         *)
(***************************************************************************)
NextCli == ParseOutput

SpecCli == InitCli /\ [][NextCli]_vars

\* a header of distinct fields and data rows of as many fields as the
\* header, none of them printed as a blank line
Tabular(t) ==
    /\ t # <<>>
    /\ \A i, j \in 1..Len(t[1]) : t[1][i] = t[1][j] => i = j
    /\ \A i \in 2..Len(t) : Len(t[i]) = Len(t[1]) /\ print_row(t[i]) # <<>>

\* C28: parsing no output gives no record and raises nothing; parsing a
\* printed header and N data rows gives N records and raises nothing, and
\* record i has the header's fields as its keys and, under each, the field
\* of the same column of data row i.
C28_Records ==
    last.cmd = "CLIResponse"
    => /\ last.obj = <<>> => (out = <<>> /\ exc = "")
       /\ (last.obj # <<>> /\ Tabular(last.obj))
          => /\ exc = ""
             /\ Len(out) = Len(last.obj) - 1
             /\ \A i \in 1..Len(out) :
                    /\ DOMAIN out[i] =
                           {token_str(last.obj[1][j]) :
                                j \in 1..Len(last.obj[1])}
                    /\ \A j \in 1..Len(last.obj[1]) :
                           out[i][token_str(last.obj[1][j])] =
                               token_str(last.obj[i + 1][j])

\* a header of two fields and two data rows that differ have been parsed
\* into two records
C28_Witness ==
    /\ last.cmd = "CLIResponse"
    /\ Len(last.obj) = 3
    /\ Tabular(last.obj)
    /\ Len(last.obj[1]) = 2
    /\ last.obj[2] # last.obj[3]
    /\ Len(out) = 2
    /\ out[1] # out[2]

(***************************************************************************)
(* The status check of the NetApp API client: claim C29, under SpecNa.     *)
(* Source: cinder/volume/drivers/netapp/api.py, classes NaServer and       *)
(* NaElement.  A response is a document, which has a results element or   *)
(* none, or it is empty: nothing was received.  An element is its          *)
(* attributes and, for each tag, the text of its first child of that tag.  *)
(* A text that is None is NoArg; a result that is None is no element.      *)
(***************************************************************************)
None == NoArg

\* NaElement.has_attr and NaElement.get_attr
has_attr(e, name) == name \in DOMAIN e.attrs
get_attr(e, name) == IF name \in DOMAIN e.attrs THEN e.attrs[name] ELSE None

\* NaElement.get_child_content: the text of the first child of the tag,
\* which is None for a child without text
get_child_content(e, name) ==
    IF name \in DOMAIN e.children THEN e.children[name] ELSE None

\* x or y
Or(x, y) == IF x \in {None, ""} THEN y ELSE x

\* a NaApiError raised, and a result returned
NaApiError(code, message) ==
    [exc |-> "NaApiError", ret |-> <<[code |-> code, message |-> message]>>]
Returned(result) == [exc |-> "", ret |-> <<result>>]
ReturnedNone == [exc |-> "", ret |-> <<>>]

\* _get_result after invoke_elem's request: the results element of the
\* response, None when the document has none
invoke_elem(response) ==
    IF DOMAIN response = {}
    THEN NaApiError("No response received", "unknown")
    ELSE IF "results" \in DOMAIN response THEN Returned(response.results)
    ELSE ReturnedNone

\* the status check that lets a result without status through
check_status_or_none(ret) ==
    IF ret = <<>>
    THEN [exc |-> "AttributeError", ret |-> <<>>]
    ELSE IF ~has_attr(ret[1], "status") \/ get_attr(ret[1], "status") = "passed"
    THEN Returned(ret[1])
    ELSE NaApiError(Or(get_attr(ret[1], "errno"),
                       Or(get_child_content(ret[1], "errorno"),
                          "ESTATUSFAILED")),
                    Or(get_attr(ret[1], "reason"),
                       Or(get_child_content(ret[1], "reason"),
                          "Execution status is failed due to unknown reason")))

\* invoke_successfully from the result of invoke_elem on; a result that
\* is None has no has_attr
check_status(ret) ==
    IF ret = <<>>
    THEN [exc |-> "AttributeError", ret |-> <<>>]
    ELSE IF has_attr(ret[1], "status") /\ get_attr(ret[1], "status") = "passed"
    THEN Returned(ret[1])
    ELSE NaApiError(Or(get_attr(ret[1], "errno"),
                       Or(get_child_content(ret[1], "errorno"),
                          "ESTATUSFAILED")),
                    Or(get_attr(ret[1], "reason"),
                       Or(get_child_content(ret[1], "reason"),
                          "Execution status is failed due to unknown reason")))

\* invoke_successfully(na_element), response being what the server sends
invoke_successfully(response) ==
    IF invoke_elem(response).exc # "" THEN invoke_elem(response)
    ELSE check_status(invoke_elem(response).ret)

\* the functions from a subset of the keys K to the values V
Partial(K, V) == UNION {[D -> V] : D \in SUBSET K}

\* the attributes and the children of the results elements of SpecNa
NaAttrs ==
    {a \in Partial({"status", "errno", "reason"},
                   {"passed", "failed", "", "13001", "no such volume"}) :
         /\ "status" \in DOMAIN a => a["status"] \in {"passed", "failed"}
         /\ "errno" \in DOMAIN a => a["errno"] \in {"", "13001"}
         /\ "reason" \in DOMAIN a => a["reason"] \in {"", "no such volume"}}

NaChildren ==
    {c \in Partial({"errorno", "reason"}, {None, "13", "bad"}) :
         /\ "errorno" \in DOMAIN c => c["errorno"] \in {None, "13"}
         /\ "reason" \in DOMAIN c => c["reason"] \in {None, "bad"}}

\* the responses of SpecNa: nothing, a document without results, and the
\* documents with a results element
NaResponses ==
    {<<>>} \cup {[other |-> None]}
    \cup {[results |-> [attrs |-> a, children |-> c]] :
              a \in NaAttrs, c \in NaChildren}

InitNa == \E r \in NaResponses : StartWith(Cmd("response", r, FALSE, ""))

\* invoke_successfully on the response drawn
InvokeSuccessfully ==
    /\ last.cmd = "response"
    /\ out' = invoke_successfully(last.obj).ret
    /\ exc' = invoke_successfully(last.obj).exc
    /\ err' = ""
    /\ last' = Cmd("invoke_successfully", last.obj, FALSE, "")
    /\ UNCHANGED <<volumes_list, hosts_list, mappings_list, fcmappings_list,
                   other_pools, next_cmd_error, nfs, netapp>>

(***************************************************************************)
(* SpecNa: invoke_successfully on one response of the server.              *)
(***************************************************************************)
NextNa == InvokeSuccessfully

SpecNa == InitNa /\ [][NextNa]_vars

\* the response of the last call has a results element
HasResults == "results" \in DOMAIN last.obj

\* the value under key k of function f when it is there and not empty,
\* else the value other
Either(f, k, other) ==
    IF k \in DOMAIN f /\ f[k] # None /\ f[k] # "" THEN f[k] ELSE other

\* C29: invoke_successfully on a response with a results element returns
\* the element when its attribute status is 'passed'; otherwise it raises
\* NaApiError with the code the attribute errno, else the text of the
\* child errorno, else 'ESTATUSFAILED', and the message the attribute
\* reason, else the text of the child reason, else the default text.
C29_Status ==
    (last.cmd = "invoke_successfully" /\ HasResults)
    => IF /\ "status" \in DOMAIN last.obj.results.attrs
          /\ last.obj.results.attrs["status"] = "passed"
       THEN exc = "" /\ out = <<last.obj.results>>
       ELSE /\ exc = "NaApiError"
            /\ out[1].code =
                   Either(last.obj.results.attrs, "errno",
                          Either(last.obj.results.children, "errorno",
                                 "ESTATUSFAILED"))
            /\ out[1].message =
                   Either(last.obj.results.attrs, "reason",
                          Either(last.obj.results.children, "reason",
                                 "Execution status is failed due to unknown reason"))

\* a result without status and without errno, whose child errorno is 13,
\* has raised NaApiError with code 13 and the default message
C29_Witness ==
    /\ last.cmd = "invoke_successfully" /\ HasResults
    /\ DOMAIN last.obj.results.attrs = {}
    /\ DOMAIN last.obj.results.children = {"errorno"}
    /\ exc = "NaApiError"
    /\ out[1].code = "13"
    /\ out[1].message = "Execution status is failed due to unknown reason"

(***************************************************************************)
(* set_safe_attr under its lock: claim C30, under SpecSafe.                *)
(* Source: cinder/volume/drivers/netapp/utils.py.  netapp.attr is the      *)
(* attribute of the object (None is NoArg), netapp.was the value it had    *)
(* before any call, netapp.lock the thread that holds the lock of          *)
(* lockutils.synchronized("safe_set_attr", "cinder-"), and netapp.th each  *)
(* thread's place in the function, its arguments, its old_val and what it  *)
(* returned.                                                               *)
(***************************************************************************)
\* the values of the attribute and of the argument val
AttrValues == {None, "a", "b"}

\* the instance and attr arguments: an object and the name of its
\* attribute, no object, and no name
SafeTargets ==
    {[instance |-> "obj", name |-> "vserver"],
     [instance |-> None, name |-> "vserver"],
     [instance |-> "obj", name |-> ""]}

\* a thread calls set_safe_attr(instance, attr, val) and comes to the lock
call(N, t, target, val) ==
    [N EXCEPT !.th[t] = [pc |-> "lock", instance |-> target.instance,
                         name |-> target.name, val |-> val,
                         old_val |-> None, ret |-> ""]]

\* line 37, synchronized("safe_set_attr", "cinder-"): a thread that has
\* come to the lock goes on when the lock is free
may_enter(N, t) == N.th[t].pc = "lock" /\ N.lock = None

\* the thread takes the lock
enter(N, t) == [N EXCEPT !.lock = t, !.th[t].pc = "guard"]

\* lines 45-47: without an instance or a name the call returns False;
\* otherwise old_val is read
guard(N, t) ==
    IF N.th[t].instance = None \/ N.th[t].name = ""
    THEN [N EXCEPT !.th[t].ret = "False", !.th[t].pc = "unlock"]
    ELSE [N EXCEPT !.th[t].old_val = N.attr, !.th[t].pc = "compare"]

\* a comparison that sets the attribute and returns True whatever it was
compare_always(N, t) ==
    [N EXCEPT !.attr = N.th[t].val, !.th[t].ret = "True",
              !.th[t].pc = "unlock"]

\* lines 48-54: False when val and old_val are None or equal, otherwise
\* the attribute is set and the call returns True
compare(N, t) ==
    IF N.th[t].val = None /\ N.th[t].old_val = None
    THEN [N EXCEPT !.th[t].ret = "False", !.th[t].pc = "unlock"]
    ELSE IF N.th[t].val = N.th[t].old_val
    THEN [N EXCEPT !.th[t].ret = "False", !.th[t].pc = "unlock"]
    ELSE [N EXCEPT !.attr = N.th[t].val, !.th[t].ret = "True",
                   !.th[t].pc = "unlock"]

\* the lock is released and the call returns
leave(N, t) == [N EXCEPT !.lock = None, !.th[t].pc = "done"]

\* a step of the NetApp object and its threads
SafeStep(N) ==
    /\ netapp' = N
    /\ UNCHANGED <<volumes_list, hosts_list, mappings_list, fcmappings_list,
                   other_pools, next_cmd_error, out, err, exc, last, nfs>>

Call(t, target, val) ==
    /\ netapp.th[t].pc = "idle"
    /\ SafeStep(call(netapp, t, target, val))

Enter(t) == may_enter(netapp, t) /\ SafeStep(enter(netapp, t))

Guard(t) == netapp.th[t].pc = "guard" /\ SafeStep(guard(netapp, t))

Compare(t) == netapp.th[t].pc = "compare" /\ SafeStep(compare(netapp, t))

Leave(t) == netapp.th[t].pc = "unlock" /\ SafeStep(leave(netapp, t))

\* the attribute has one of its values before the calls
InitSafe ==
    /\ volumes_list = <<>>
    /\ hosts_list = <<>>
    /\ mappings_list = <<>>
    /\ fcmappings_list = <<>>
    /\ other_pools = [p \in {"openstack2", "openstack3"} |-> <<>>]
    /\ next_cmd_error = [c \in InjectableCmds |-> ""]
    /\ out = <<>> /\ err = "" /\ exc = ""
    /\ nfs = NfsNew
    /\ last = Cmd("init", "", FALSE, "")
    /\ \E v \in AttrValues :
           netapp = [NetappNew EXCEPT !.attr = v, !.was = v]

(***************************************************************************)
(* SpecSafe: each thread calls set_safe_attr once, the calls interleaved   *)
(* in every way the lock allows.                                           *)
(***************************************************************************)
NextSafe ==
    \/ \E t \in Threads, target \in SafeTargets, val \in AttrValues :
           Call(t, target, val)
    \/ \E t \in Threads : Enter(t)
    \/ \E t \in Threads : Guard(t)
    \/ \E t \in Threads : Compare(t)
    \/ \E t \in Threads : Leave(t)

SpecSafe == InitSafe /\ [][NextSafe]_vars

\* a call on an object and a name
OnObject(t) == netapp.th[t].instance # None /\ netapp.th[t].name # ""

\* the step in which a call decides: it returns True exactly when the
\* attribute's value differs from val, and then the attribute is val; it
\* returns False when the attribute has the value, and leaves it
C30_Decide ==
    \A t \in Threads :
        (netapp.th[t].pc = "compare" /\ netapp'.th[t].pc = "unlock")
        => IF netapp.attr # netapp.th[t].val
           THEN netapp'.th[t].ret = "True" /\ netapp'.attr = netapp.th[t].val
           ELSE netapp'.th[t].ret = "False" /\ netapp'.attr = netapp.attr

\* at most one thread is between taking the lock and releasing it
C30_Exclusive ==
    \A t, u \in Threads :
        ( /\ netapp.th[t].pc \in {"guard", "compare", "unlock"}
          /\ netapp.th[u].pc \in {"guard", "compare", "unlock"} )
        => t = u

\* once all threads have returned from calls on the object with the same
\* val, which the attribute did not have, exactly one has returned True
\* and the attribute is val
C30_OneTrue ==
    ( /\ \A t \in Threads : netapp.th[t].pc = "done" /\ OnObject(t)
      /\ \A t, u \in Threads : netapp.th[t].val = netapp.th[u].val
      /\ \A t \in Threads : netapp.th[t].val # netapp.was )
    => /\ Cardinality({t \in Threads : netapp.th[t].ret = "True"}) = 1
       /\ \A t \in Threads : netapp.attr = netapp.th[t].val

\* C30: set_safe_attr returns True exactly when the attribute's value
\* differs from val and it set the attribute, and False when the attribute
\* already has the value; calls exclude each other; and of the calls of
\* all threads with one new value exactly one returns True, the attribute
\* ending with that value.
C30_SafeSet ==
    /\ [][C30_Decide]_vars
    /\ [](C30_Exclusive /\ C30_OneTrue)

\* both threads have called set_safe_attr on the object with the same new
\* value and have returned, t1 True and t2 False
C30_Witness ==
    /\ \A t \in Threads : netapp.th[t].pc = "done" /\ OnObject(t)
    /\ netapp.th["t1"].val = "a" /\ netapp.th["t2"].val = "a"
    /\ netapp.was = None
    /\ netapp.th["t1"].ret = "True" /\ netapp.th["t2"].ret = "False"
    /\ netapp.attr = "a"

(***************************************************************************)
(* Two clients and one FlashCopy mapping: claim C31, under Spec.  The      *)
(* array runs one command at a time; two clients that issue the same       *)
(* command on a mapping with nothing in between are two steps in a row     *)
(* with the same command and the same id.                                  *)
(***************************************************************************)
\* the step repeats the command of the step before on the same mapping,
\* and that command had succeeded
Repeats(cmds) ==
    /\ last.cmd \in cmds
    /\ last'.cmd = last.cmd
    /\ last'.obj = last.obj
    /\ err = "" /\ exc = ""

\* C31: when a prestartfcmap, startfcmap or stopfcmap that succeeded on a
\* mapping is issued again with no command in between, the second returns
\* CMMVC5903E and the mapping store stays as the first left it; an rmfcmap
\* issued after an rmfcmap that succeeded on the same id returns an error
\* and changes nothing.
C31_Step ==
    /\ Repeats({"prestartfcmap", "startfcmap", "stopfcmap"})
           => /\ err' = "CMMVC5903E"
              /\ fcmappings_list' = fcmappings_list
    /\ Repeats({"rmfcmap"})
           => /\ err' # ""
              /\ fcmappings_list' = fcmappings_list

C31_OneSucceeds == [][C31_Step]_vars

\* a mapping that copies at rate 50 and has not progressed, so that
\* nothing came after the startfcmap that made it copy, has rejected a
\* second startfcmap
C31_Witness ==
    /\ last.cmd = "startfcmap" /\ last.pre = "copying"
    /\ err = "CMMVC5903E"
    /\ last.obj \in DOMAIN fcmappings_list
    /\ fcmappings_list[last.obj].status = "copying"
    /\ fcmappings_list[last.obj].copyrate = "50"
    /\ fcmappings_list[last.obj].progress = "0"

(***************************************************************************)
(* The two assignments of _cmd_migratevdisk: claim C32, under SpecStep.    *)
(* SpecStep takes a migratevdisk that passes its checks in two steps, the  *)
(* statement of line 1228 and the statement of line 1229, so that the      *)
(* store between them is a state; last.cmd is "migratevdisk_between"       *)
(* there, and no other command runs until the second statement has.        *)
(***************************************************************************)
\* line 1228, tgt_mdiskgrp[vdisk] = vol
migrate_insert(S, mdiskgrp, vdisk) ==
    [S EXCEPT !.other_pools[mdiskgrp] = Put(@, vdisk, S.volumes_list[vdisk])]

\* line 1229, del curr_mdiskgrp[vdisk]
migrate_remove(S, vdisk) == [S EXCEPT !.volumes_list = Del(@, vdisk)]

\* whether a migratevdisk is between its two statements
Between == last.cmd = "migratevdisk_between"

\* the first statement of a migratevdisk that passes the checks
MigrateFirst(mdiskgrp, vdisk) ==
    /\ ~Between
    /\ cmd_migratevdisk(Sim, mdiskgrp, vdisk).err = ""
    /\ cmd_migratevdisk(Sim, mdiskgrp, vdisk).exc = ""
    /\ Apply([sim |-> migrate_insert(Sim, mdiskgrp, vdisk), out |-> out,
              err |-> err, exc |-> exc],
             Cmd("migratevdisk_between", <<mdiskgrp, vdisk>>, FALSE, ""))

\* the second statement, and the return
MigrateSecond ==
    /\ Between
    /\ Apply(Ret(migrate_remove(Sim, last.obj[2]), <<>>, ""),
             Cmd("migratevdisk", last.obj, FALSE, ""))

\* a migratevdisk that fails one of the checks
MigrateRefused(mdiskgrp, vdisk) ==
    /\ ~Between
    /\ \/ cmd_migratevdisk(Sim, mdiskgrp, vdisk).err # ""
       \/ cmd_migratevdisk(Sim, mdiskgrp, vdisk).exc # ""
    /\ Migratevdisk(mdiskgrp, vdisk)

(***************************************************************************)
(* SpecStep: SpecPool with migratevdisk in two steps.                      *)
(***************************************************************************)
NextStep ==
    \/ \E n \in VolNames : ~Between /\ Mkvdisk(n, 1, "gb", "on")
    \/ \E n \in VolNames : ~Between /\ Rmvdisk(n, FALSE)
    \/ \E p \in PoolNames \cup {"nopool"}, n \in VolNames :
           MigrateFirst(p, n)
    \/ MigrateSecond
    \/ \E p \in PoolNames \cup {"nopool"}, n \in VolNames :
           MigrateRefused(p, n)

SpecStep == Init /\ [][NextStep]_vars

\* C32: between the two statements of a migratevdisk the volume is in no
\* pool of the array: neither in the pool it leaves nor in the pool it
\* goes to.
C32_RemoveThenInsert ==
    Between
    => /\ last.obj[2] \notin DOMAIN volumes_list
       /\ last.obj[2] \notin DOMAIN other_pools[last.obj[1]]

\* between the two statements the volume is in the pool it leaves and in
\* the pool it goes to
C32_Witness ==
    /\ Between
    /\ last.obj[2] \in DOMAIN volumes_list
    /\ last.obj[2] \in DOMAIN other_pools[last.obj[1]]
    /\ other_pools[last.obj[1]][last.obj[2]] = volumes_list[last.obj[2]]

(***************************************************************************)
(* The API version of a NaServer and its tunnelling: claims C33 and C40,   *)
(* under SpecApi.  Source: cinder/volume/drivers/netapp/api.py, class      *)
(* NaServer.  The server is netapp.server.  An argument of                 *)
(* set_api_version is an integer, [int |-> n], or a string, [str |-> s],   *)
(* s being the sequence of its characters, as every text is here.          *)
(***************************************************************************)
DigitChars == <<"0", "1", "2", "3", "4", "5", "6", "7", "8", "9">>

\* the number a digit character stands for
digit(c) == (CHOOSE i \in DOMAIN DigitChars : DigitChars[i] = c) - 1

\* whether int(v) returns: an integer, or a string of digits
is_int(v) ==
    \/ "int" \in DOMAIN v
    \/ /\ v.str # <<>>
       /\ \A i \in DOMAIN v.str : \E j \in DOMAIN DigitChars :
              DigitChars[j] = v.str[i]

\* the number a string of digits stands for
RECURSIVE int_of_digits(_, _)
int_of_digits(s, n) ==
    IF s = <<>> THEN n ELSE int_of_digits(Tail(s), 10 * n + digit(Head(s)))

\* int(v), where it returns
int(v) == IF "int" \in DOMAIN v THEN v.int ELSE int_of_digits(v.str, 0)

\* the digits of a natural number
RECURSIVE digits_of(_)
digits_of(n) ==
    IF n < 10 THEN <<DigitChars[n + 1]>>
    ELSE digits_of(n \div 10) \o <<DigitChars[(n % 10) + 1]>>

\* str(v)
str(v) == IF "int" \in DOMAIN v THEN digits_of(v.int) ELSE v.str

\* set_api_version(major, minor): the three assignments in their order,
\* the first int() that fails ending them with ValueError
set_api_version(N, major, minor) ==
    IF ~is_int(major) THEN [server |-> N, exc |-> "ValueError"]
    ELSE IF ~is_int(minor)
    THEN [server |-> [N EXCEPT !.api_major_version = <<int(major)>>],
          exc |-> "ValueError"]
    ELSE [server |-> [N EXCEPT !.api_major_version = <<int(major)>>,
                               !.api_minor_version = <<int(minor)>>,
                               !.api_version =
                                   <<str(major) \o <<".">> \o str(minor)>>],
          exc |-> ""]

\* get_api_version(): None (<<>>) without _api_version, else the pair
get_api_version(N) ==
    IF N.api_version = <<>> THEN <<>>
    ELSE <<N.api_major_version[1], N.api_minor_version[1]>>

\* hasattr(self, name) and self.name, for _vfiler and _vserver
configured(attr) == attr # <<>> /\ attr[1] # <<>>

\* the condition of both branches of _enable_tunnel_request
version_allows(N, major, minor) ==
    /\ N.api_major_version # <<>>
    /\ N.api_minor_version # <<>>
    /\ N.api_major_version[1] >= major
    /\ N.api_minor_version[1] >= minor

\* the second if of _enable_tunnel_request
enable_tunnel_vserver(N, elem) ==
    IF ~configured(N.vserver) THEN [exc |-> "", elem |-> elem]
    ELSE IF version_allows(N, 1, 15)
    THEN [exc |-> "", elem |-> Put(elem, "vfiler", N.vserver[1])]
    ELSE [exc |-> "ValueError", elem |-> elem]

\* _enable_tunnel_request(netapp_elem)
enable_tunnel_request(N, elem) ==
    IF ~configured(N.vfiler) THEN enable_tunnel_vserver(N, elem)
    ELSE IF version_allows(N, 1, 7)
    THEN enable_tunnel_vserver(N, Put(elem, "vfiler", N.vfiler[1]))
    ELSE [exc |-> "ValueError", elem |-> elem]

\* the attributes of the element _create_request starts with
netapp_elem(N) ==
    IF N.api_version = <<>> THEN [xmlns |-> <<"ns">>]
    ELSE [xmlns |-> <<"ns">>, version |-> N.api_version[1]]

\* _create_request(na_element, enable_tunneling): the attributes of the
\* netapp element of the request, or the exception
create_request(N, enable_tunneling) ==
    IF enable_tunneling THEN enable_tunnel_request(N, netapp_elem(N))
    ELSE [exc |-> "", elem |-> netapp_elem(N)]

\* the arguments of set_api_version in SpecApi
ApiValues ==
    {[int |-> 0], [int |-> 1], [int |-> 2], [int |-> 7], [int |-> 15],
     [str |-> <<"1", "6">>], [str |-> <<"x">>]}

\* the arguments of set_vfiler and set_vserver
TunnelNames == {<<>>, <<"v", "1">>}

\* a step of the server
ServerStep(N, o, e, l) ==
    /\ netapp' = [netapp EXCEPT !.server = N]
    /\ out' = o /\ exc' = e /\ err' = ""
    /\ last' = l
    /\ UNCHANGED <<volumes_list, hosts_list, mappings_list, fcmappings_list,
                   other_pools, next_cmd_error, nfs>>

SetApiVersion(major, minor) ==
    ServerStep(set_api_version(netapp.server, major, minor).server, <<>>,
               set_api_version(netapp.server, major, minor).exc,
               Cmd("set_api_version", <<major, minor>>, FALSE, ""))

GetApiVersion ==
    ServerStep(netapp.server, <<get_api_version(netapp.server)>>, "",
               Cmd("get_api_version", "", FALSE, ""))

SetVfiler(vfiler) ==
    ServerStep([netapp.server EXCEPT !.vfiler = <<vfiler>>], <<>>, "",
               Cmd("set_vfiler", vfiler, FALSE, ""))

SetVserver(vserver) ==
    ServerStep([netapp.server EXCEPT !.vserver = <<vserver>>], <<>>, "",
               Cmd("set_vserver", vserver, FALSE, ""))

CreateRequest(enable_tunneling) ==
    ServerStep(netapp.server,
               IF create_request(netapp.server, enable_tunneling).exc = ""
               THEN <<create_request(netapp.server, enable_tunneling).elem>>
               ELSE <<>>,
               create_request(netapp.server, enable_tunneling).exc,
               Cmd("create_request", enable_tunneling, FALSE, ""))

(***************************************************************************)
(* SpecApi: a NaServer whose version, vfiler and vserver are set, and      *)
(* whose requests are built with and without tunnelling.                   *)
(***************************************************************************)
NextApi ==
    \/ \E major \in ApiValues, minor \in ApiValues :
           SetApiVersion(major, minor)
    \/ GetApiVersion
    \/ \E v \in TunnelNames : SetVfiler(v)
    \/ \E v \in TunnelNames : SetVserver(v)
    \/ \E t \in BOOLEAN : CreateRequest(t)

SpecApi == Init /\ [][NextApi]_vars

\* whether version major.minor is at least version a.b
AtLeast(major, minor, a, b) == major > a \/ (major = a /\ minor >= b)

\* whether the version that was set is at least a.b
SetAtLeast(a, b) ==
    /\ get_api_version(netapp.server) # <<>>
    /\ AtLeast(get_api_version(netapp.server)[1],
               get_api_version(netapp.server)[2], a, b)

\* C33: a request with tunnelling for a configured vfiler (and no vserver)
\* is built exactly when the version that was set is at least 1.7, and one
\* for a configured vserver (and no vfiler) exactly when it is at least
\* 1.15; otherwise ValueError is raised and no request is built.
C33_Tunnel ==
    (last.cmd = "create_request" /\ last.obj)
    => /\ ( /\ configured(netapp.server.vfiler)
            /\ ~configured(netapp.server.vserver) )
          => IF SetAtLeast(1, 7)
             THEN exc = "" /\ out[1]["vfiler"] = netapp.server.vfiler[1]
             ELSE exc = "ValueError" /\ out = <<>>
       /\ ( /\ configured(netapp.server.vserver)
            /\ ~configured(netapp.server.vfiler) )
          => IF SetAtLeast(1, 15)
             THEN exc = "" /\ out[1]["vfiler"] = netapp.server.vserver[1]
             ELSE exc = "ValueError" /\ out = <<>>

\* on a server of version 2.0, set by set_api_version(2, 0), a request
\* for a configured vfiler has raised ValueError
C33_Witness ==
    /\ last.cmd = "create_request" /\ last.obj
    /\ configured(netapp.server.vfiler)
    /\ netapp.server.api_version = << <<"2", ".", "0">> >>
    /\ get_api_version(netapp.server) = <<2, 0>>
    /\ exc = "ValueError" /\ out = <<>>

(***************************************************************************)
(* Commands that return an error: claim C34, under SpecPort.               *)
(***************************************************************************)
\* the object store: the volumes of every pool with their copies, the
\* hosts with their ports, the host mappings and the FlashCopy mappings
ObjectStore ==
    <<volumes_list, other_pools, hosts_list, mappings_list, fcmappings_list>>

\* C34: a command that returns an error leaves the object store as it was
\* before the command.
C34_Step == err' # "" => ObjectStore' = ObjectStore

C34_ErrorKeepsStore == [][C34_Step]_vars

\* addhostport has returned CMMVC6581E, since another host has the port
\* as its first, and the port is now the last of the ports of the host
\* that was named
C34_Witness ==
    /\ last.cmd = "addhostport" /\ err = "CMMVC6581E"
    /\ last.obj[1] \in DOMAIN hosts_list
    /\ last.obj[2] = "iscsiname"
    /\ hosts_list[last.obj[1]].iscsi_names # <<>>
    /\ hosts_list[last.obj[1]].iscsi_names[
           Len(hosts_list[last.obj[1]].iscsi_names)] = last.obj[3]
    /\ \E h \in DOMAIN hosts_list \ {last.obj[1]} :
           /\ hosts_list[h].iscsi_names # <<>>
           /\ hosts_list[h].iscsi_names[1] = last.obj[3]

(***************************************************************************)
(* Mappings and the volumes they name: claim C35, under SpecUse.           *)
(***************************************************************************)
\* C35: in every reachable state the volume of every host mapping and the
\* source and the target of every FlashCopy mapping are in _volumes_list,
\* the store lsvdisk, lshostvdiskmap and lsfcmap read.
C35_NoDangling ==
    /\ \A k \in DOMAIN mappings_list :
           mappings_list[k].vol \in DOMAIN volumes_list
    /\ \A k \in DOMAIN fcmappings_list :
           /\ fcmappings_list[k].source \in DOMAIN volumes_list
           /\ fcmappings_list[k].target \in DOMAIN volumes_list

\* rmvdisk -force has removed a volume that a host mapping names, and the
\* mapping is still stored
C35_Witness ==
    /\ last.cmd = "rmvdisk" /\ last.force /\ err = ""
    /\ last.obj \notin DOMAIN volumes_list
    /\ \E k \in DOMAIN mappings_list : mappings_list[k].vol = last.obj

(***************************************************************************)
(* Mappings and the hosts they name: claim C36, under SpecMap.             *)
(***************************************************************************)
\* every host mapping names a stored host
C36_HostsExist ==
    \A k \in DOMAIN mappings_list :
        mappings_list[k].host \in DOMAIN hosts_list

\* mkvdiskhostmap for a host that is not stored is rejected, with
\* CMMVC5754E when the volume is stored (the volume is looked up first);
\* rmhost of a stored host that a mapping names returns CMMVC5871E; both
\* leave hosts and mappings as they were
C36_Step ==
    /\ ( /\ last'.cmd = "mkvdiskhostmap"
         /\ last'.obj[1] \notin DOMAIN hosts_list )
       => /\ err' # ""
          /\ last'.obj[3] \in DOMAIN volumes_list => err' = "CMMVC5754E"
          /\ UNCHANGED <<hosts_list, mappings_list>>
    /\ ( /\ last'.cmd = "rmhost"
         /\ last'.obj \in DOMAIN hosts_list
         /\ \E k \in DOMAIN mappings_list :
                mappings_list[k].host = last'.obj )
       => /\ err' = "CMMVC5871E"
          /\ UNCHANGED <<hosts_list, mappings_list>>

\* C36: in every reachable state every host mapping names a host of the
\* host store; mkvdiskhostmap rejects a host that is not stored, with
\* CMMVC5754E, and rmhost rejects a host that has a mapping, with
\* CMMVC5871E.
C36_MappedHostsExist == []C36_HostsExist /\ [][C36_Step]_vars

\* mkvdiskhostmap of a stored volume to a host that is not stored has
\* returned CMMVC5754E, while another host has a mapping
C36_Witness ==
    /\ last.cmd = "mkvdiskhostmap" /\ err = "CMMVC5754E"
    /\ last.obj[1] \notin DOMAIN hosts_list
    /\ last.obj[3] \in DOMAIN volumes_list
    /\ mappings_list # <<>>
    /\ C36_HostsExist

(***************************************************************************)
(* The progress of a FlashCopy mapping: claim C37, under Spec.             *)
(***************************************************************************)
\* the number a progress stands for
progress_of(v) ==
    IF v.progress = "0" THEN 0 ELSE IF v.progress = "50" THEN 50 ELSE 100

\* the progress of every stored mapping is 0, 50 or 100, and that of a
\* mapping in idle_or_copied is 0 or 100
C37_Values ==
    \A k \in DOMAIN fcmappings_list :
        /\ fcmappings_list[k].progress \in {"0", "50", "100"}
        /\ fcmappings_list[k].status = "idle_or_copied"
               => fcmappings_list[k].progress \in {"0", "100"}

\* no step lowers the progress of a mapping that stays stored
C37_Step ==
    \A k \in DOMAIN fcmappings_list \cap DOMAIN fcmappings_list' :
        progress_of(fcmappings_list'[k]) >= progress_of(fcmappings_list[k])

\* C37: the progress of every FlashCopy mapping is one of 0, 50 and 100
\* and never decreases while the mapping is stored, whatever the events
\* (stopping, preparing again and starting again do not reset it), and a
\* mapping in idle_or_copied has progress 0 or 100.
C37_Progress == []C37_Values /\ [][C37_Step]_vars

\* a mapping that had been copied to 100 has been prepared again, and its
\* progress is still 100
C37_Witness ==
    /\ last.cmd = "prestartfcmap" /\ last.pre = "idle_or_copied"
    /\ err = ""
    /\ last.obj \in DOMAIN fcmappings_list
    /\ fcmappings_list[last.obj].status = "preparing"
    /\ fcmappings_list[last.obj].progress = "100"

(***************************************************************************)
(* The ids of volumes: claim C38, under SpecPool.                          *)
(***************************************************************************)
\* the volume of the name in the pool
VolumeIn(p, name) ==
    IF p = volpool_name THEN volumes_list[name] ELSE other_pools[p][name]

\* C38, for volumes: in every reachable state no two volumes, in whatever
\* pools they are, have the same id.
C38_UniqueIds ==
    \A p1, p2 \in PoolNames :
        \A n1 \in PoolVolumes(p1), n2 \in PoolVolumes(p2) :
            (p1 # p2 \/ n1 # n2)
            => VolumeIn(p1, n1).id # VolumeIn(p2, n2).id

\* mkvdisk has just given a new volume the id of a volume of another
\* name that migratevdisk had moved to another pool
C38_Witness ==
    /\ last.cmd = "mkvdisk" /\ err = ""
    /\ last.obj[1] \in DOMAIN volumes_list
    /\ \E p \in DOMAIN other_pools : \E n \in DOMAIN other_pools[p] :
           /\ n # last.obj[1]
           /\ other_pools[p][n].id = volumes_list[last.obj[1]].id

(***************************************************************************)
(* List commands and the store: claim C39, under SpecCopy.                 *)
(***************************************************************************)
\* C39, for lsvdiskcopy: the command leaves the object store, the sync
\* state of the copies included, as it was.
C39_Step == last'.cmd = "lsvdiskcopy" => ObjectStore' = ObjectStore

C39_ListKeepsStore == [][C39_Step]_vars

\* lsvdiskcopy -copy has printed a copy as not synchronised, and the copy
\* is stored as synchronised
C39_Witness ==
    /\ last.cmd = "lsvdiskcopy" /\ err = "" /\ exc = ""
    /\ last.obj \in DOMAIN volumes_list
    /\ Len(out) = 1
    /\ out[1].sync = "no"
    /\ volumes_list[last.obj].copies[out[1].copy_id].sync = "yes"

(***************************************************************************)
(* A set_api_version that fails: claim C40, under SpecApi.                 *)
(***************************************************************************)
\* C40: a set_api_version that raises ValueError leaves what
\* get_api_version returns, and the _api_major_version,
\* _api_minor_version and _api_version that requests and the tunnelling
\* check read, as they were before the call.
C40_Step ==
    (last'.cmd = "set_api_version" /\ exc' = "ValueError")
    => /\ get_api_version(netapp'.server) = get_api_version(netapp.server)
       /\ netapp'.server.api_major_version = netapp.server.api_major_version
       /\ netapp'.server.api_minor_version = netapp.server.api_minor_version
       /\ netapp'.server.api_version = netapp.server.api_version

C40_VersionKept == [][C40_Step]_vars

\* after set_api_version(1, 15), set_api_version(0, 'x') has raised
\* ValueError, and get_api_version returns (0, 15)
C40_Witness ==
    /\ last.cmd = "set_api_version" /\ exc = "ValueError"
    /\ last.obj = <<[int |-> 0], [str |-> <<"x">>]>>
    /\ netapp.server.api_version = << <<"1", ".", "1", "5">> >>
    /\ get_api_version(netapp.server) = <<0, 15>>

====
